---------------------------- MODULE Spec2Model ----------------------------
(***************************************************************************)
(* A model of the bakery build engine (lainproliant/bakery):               *)
(*   - the recipe wrapper (bakery/core.py Build.recipe, and its twin       *)
(*     bakery/recipes/core.py Recipes.recipe),                             *)
(*   - the bounded shell runner (bakery/shell.py, bakery/core.py),         *)
(*   - the layered evaluator (bakery.py Build.build, build_eval_deck),     *)
(*   - the build driver (bakery/core.py Build.build) over the demo         *)
(*     Bakefile and the compile and link recipes.                          *)
(* Each subsystem has its own specification over the shared variables;     *)
(* the variables of the other subsystems stay at their initial values.     *)
(***************************************************************************)
EXTENDS Integers, Sequences, FiniteSets, TLC

VARIABLES
    \* ---- filesystem and recipe wrapper --------------------------------
    fs,          \* path -> mtime, NoFile when the path does not exist
    temp_files,  \* Build.temp_files / Recipes.temp_files: the temp registry
    cleaning,    \* Build.config.clean / Recipes.cleaning
    rpc,         \* position of the recipe invocation: idle, producing, done
    inv,         \* the invocation: declared roles and bound arguments
    invoked,     \* how often the wrapped producer f was called in it
    result,      \* what the invocation returned or raised
    \* ---- shell runner -------------------------------------------------
    limiter,        \* Shell.limiter: the permits left in the semaphore
    spc,            \* per invocation: its position in Shell.__call__
    call,           \* per invocation: its arguments and its subprocess
    cmd_line,       \* per invocation: the flattened argv
    readline_tasks, \* per invocation: the streams with a pending readline
    rpos,           \* per invocation and stream: lines read so far
    output,         \* per invocation: the stdout buffer
    err_output,     \* per invocation: the stderr buffer
    sresult,        \* per invocation: what it returned or raised
    \* ---- evaluator ----------------------------------------------------
    deps,        \* the injector's dependency graph: name -> names
    decl,        \* name -> how the resource is declared
    body,        \* name -> what its producer yields: sync, async or list
    targets,     \* the targets build() is called with
    epc,         \* position of build(): start, require, gather, final, done
    eval_deck,   \* the cards build_eval_deck returned
    level,       \* index of the card being evaluated
    todo,        \* targets of the card not yet required
    coro_map,    \* targets of the card whose value is a coroutine
    coro_value_list_map, \* target of the card -> its list value
    awaiting,    \* coroutines gathered and not yet completed
    completed,   \* coroutines gathered and completed
    calls,       \* name -> how often its producer was invoked
    cached,      \* names whose value the injector holds as a singleton
    provided,    \* name -> the value bound by provide_async, or NotProvided
    effects,     \* names whose producer has had a side effect
    late,        \* names that had a side effect after one of a dependent
    error,       \* what build() raised, "" before and "none" on return
    \* ---- build driver (bakery/core.py) --------------------------------
    now,           \* the clock mtimes are taken from
    defaults,      \* the resources of the module tagged bakery-default
    setups,        \* the resources of the module tagged bakery-setup
    module_targets,\* the resources of the module tagged bakery-target
    obj_role,      \* the role compile gives obj: target (c.py) or temp (demo)
    bpc,           \* position of Build.build: idle, setup, targets
    build_count,   \* Build.build_count
    bcall,         \* the arguments of the last call of build()
    build_targets, \* targets, once defaulted and validated
    pending,       \* names build() has still to require in this phase
    plan,          \* producers the current require has still to invoke
    bcached,       \* singletons the injector of this build holds
    bresult,       \* how the last build() ended: ok or the exception
    jpc,           \* per recipe job: idle, entered, running, done
    produced,      \* resource -> producer invocations in this build
    jobruns,       \* recipe job -> invocations of its wrapped producer
    spawned,       \* subprocesses spawned in this build
    written,       \* target files the recipes of this build produced
    since,         \* what happened since the last build() ended
    basis,         \* since, as it was when this build() began
    \* ---- utilities called on their own (bakery/utils.py, File) ---------
    flat_arg,      \* the value flat_map is called with
    flat_results,  \* what flat_map returned
    tree,          \* the kind of every path before remove is called
    rm,            \* the call of remove: its path, the tree it left, its error
    \* ---- the bake command line (bakery/bake.py) -------------------------
    argv,          \* the positional TARGET names bake was run with
    clean_call     \* clean() over a tree with directories: its outputs,
                   \* the tree it left, its error

recipeVars == <<fs, temp_files, cleaning, rpc, inv, invoked, result>>

shellVars == <<limiter, spc, call, cmd_line, readline_tasks, rpos, output,
               err_output, sresult>>

evalVars == <<deps, decl, body, targets, epc, eval_deck, level, todo, coro_map,
              coro_value_list_map, awaiting, completed, calls, cached, provided,
              effects, late, error>>

buildVars == <<now, defaults, setups, module_targets, obj_role, bpc,
               build_count, bcall, build_targets,
               pending, plan, bcached, bresult, jpc, produced, jobruns, spawned,
               written, since, basis>>

utilVars == <<flat_arg, flat_results, tree, rm, argv, clean_call>>

vars == <<recipeVars, shellVars, evalVars, buildVars, utilVars>>

\* what a step of one subsystem leaves alone
notRecipeVars == <<shellVars, evalVars, buildVars, utilVars>>
notShellVars == <<recipeVars, evalVars, buildVars, utilVars>>
notEvalVars == <<recipeVars, shellVars, buildVars, utilVars>>
\* the build driver runs recipes: it shares fs, temp_files and cleaning
notBuildVars == <<rpc, inv, invoked, result, shellVars, evalVars, utilVars>>
notUtilVars == <<recipeVars, shellVars, evalVars, buildVars>>

(***************************************************************************)
(* Bounds of the model.                                                    *)
(***************************************************************************)
MaxTime == 2   \* mtimes range over 1..MaxTime
MaxTemp == 1   \* entries the temp registry holds when the invocation starts
MaxTasks == 3  \* shell invocations started concurrently
MaxLines == 2  \* lines a subprocess writes to one stream
MaxBuilds == 3  \* calls of build() in one process
PipeCap == 1    \* lines a pipe holds for a subprocess that is not being read
MaxItems == 2   \* items of the outer container flat_map is given

(***************************************************************************)
(* Values passed to producers: a path, or a container of values.           *)
(***************************************************************************)
Files == {"a.c", "a.o", "out"}
NoFile == 0
Times == 1..MaxTime

Str(p) == [kind |-> "str", path |-> p, items |-> <<>>, num |-> 0]
IntVal(n) == [kind |-> "int", path |-> "", items |-> <<>>, num |-> n]
List(s) == [kind |-> "list", path |-> "", items |-> s, num |-> 0]
SetOf(s) == [kind |-> "set", path |-> "", items |-> s, num |-> 0]
\* a dict: its items are <<key, value>> pairs
Dict(s) == [kind |-> "dict", path |-> "", items |-> s, num |-> 0]
Generator(s) == [kind |-> "generator", path |-> "", items |-> s, num |-> 0]

\* utils.degenerate: a generator becomes the list of what it yields
degenerate(x) == IF x.kind = "generator" THEN List(x.items) ELSE x

\* str(x) for the leaves flat_map meets: a string is itself, a small
\* integer its decimal digit, anything else its repr
str(x) ==
    IF x.kind = "str" THEN x
    ELSE IF x.kind = "int" /\ x.num \in 0..9
    THEN Str(<<"0", "1", "2", "3", "4", "5", "6", "7", "8", "9">>[x.num + 1])
    ELSE Str("<object>")

\* the functions flat_map is called with, by name
Apply(f, x) ==
    IF f = "degenerate" THEN degenerate(x) ELSE IF f = "str" THEN str(x) ELSE x

RECURSIVE flat_map_keys(_, _)
\* A plausible slip: a dict is iterated as it stands, which yields its keys.
flat_map_keys(arg, f) ==
    IF arg.kind \in {"set", "list", "tuple"}
    THEN IF arg.items = <<>> THEN <<>>
         ELSE flat_map_keys(Head(arg.items), f)
              \o flat_map_keys([arg EXCEPT !.items = Tail(arg.items)], f)
    ELSE IF arg.kind = "dict"
    THEN flat_map_keys(List([k \in DOMAIN arg.items |-> Str(arg.items[k][1])]), f)
    ELSE <<Apply(f, arg)>>

RECURSIVE flat_map(_, _)
\* utils.flat_map: f applied to the leaves of arg, in order.  For a dict the
\* list of its values is flattened.
flat_map(arg, f) ==
    IF arg.kind \in {"set", "list", "tuple"}
    THEN IF arg.items = <<>> THEN <<>>
         ELSE flat_map(Head(arg.items), f)
              \o flat_map([arg EXCEPT !.items = Tail(arg.items)], f)
    ELSE IF arg.kind = "dict"
    THEN flat_map(List([k \in DOMAIN arg.items |-> arg.items[k][2]]), f)
    ELSE <<Apply(f, arg)>>

\* utils.is_iterable: list, tuple, range or generator; a set is not.
is_iterable(x) == x.kind \in {"list", "tuple", "range", "generator"}

Range(s) == {s[i] : i \in DOMAIN s}

Max(S) == CHOOSE m \in S : \A x \in S : x <= m

(***************************************************************************)
(* A recipe invocation: the role names given to recipe(...) and the        *)
(* arguments bound to the producer's parameters.                           *)
(***************************************************************************)
Params == {"obj", "src", "tmp"}

\* the values each parameter is bound to in the model: a path, an empty
\* sequence, or a sequence of two paths
ArgValues(p) ==
    IF p = "src"
    THEN {Str("a.c"), List(<<>>), List(<<Str("a.c"), Str("a.o")>>)}
    ELSE IF p = "obj"
    THEN {Str("a.o"), Str("out"), List(<<>>), List(<<Str("a.o"), Str("out")>>)}
    ELSE {Str("a.o"), Str("out")}

DefaultArg == Str("a.c")

AllArgValues == UNION {ArgValues(p) : p \in Params} \cup {DefaultArg}

\* Invocations of recipes declared as recipe(*targets, check=, temp=): the
\* target role is obj, the check role src and the temp role tmp, each declared
\* or not; a parameter that has no role is bound to DefaultArg.
Invocations ==
    { i \in [targets : SUBSET {"obj"}, check : SUBSET {"src"},
             temp : SUBSET {"tmp"}, args : [Params -> AllArgValues]] :
        \A p \in Params :
            IF p \in (i.targets \cup i.check \cup i.temp)
            THEN i.args[p] \in ArgValues(p)
            ELSE i.args[p] = DefaultArg }

NoInv == [targets |-> {}, check |-> {}, temp |-> {},
          args |-> [p \in Params |-> DefaultArg]]

\* set(flat_map([bound_params.arguments[k] for k in roles]))
RoleFiles(i, roles) ==
    UNION {{v.path : v \in Range(flat_map(i.args[k], "id"))} : k \in roles}

\* A plausible slip: the check roles are counted with the outputs.
outputsWithCheck(i) == i.targets \cup i.temp \cup i.check

\* outputs = targets | temp
outputs(i) == i.targets \cup i.temp
target_files(i) == RoleFiles(i, i.targets)
check_files(i) == RoleFiles(i, i.check)
invTempFiles(i) == RoleFiles(i, i.temp)
output_files(i) == target_files(i) \cup invTempFiles(i)

exists(f, file) == f[file] # NoFile

outputs_exist(i, f) == \A file \in output_files(i) : exists(f, file)

\* A plausible slip: a check file that is missing counts with mtime 0.
check_mtimes_of_all(i, f) == {f[file] : file \in check_files(i)}

\* the mtimes are only tested for emptiness and for their maximum, so the
\* lists are held as sets
check_mtimes(i, f) == {f[file] : file \in {x \in check_files(i) : exists(f, x)}}
output_mtimes(i, f) == {f[file] : file \in {x \in output_files(i) : exists(f, x)}}

\* A plausible slip: the freshness comparison is dropped.
outputs_up_to_date_no_mtime(i, f) ==
    outputs(i) # {} /\ outputs_exist(i, f)

\* A plausible slip: the parenthesis that holds `or not check_files` closes
\* early, so that the disjunct applies to the whole conjunction.
outputs_up_to_date_or_outside(i, f) ==
    \/ /\ outputs(i) # {}
       /\ outputs_exist(i, f)
       /\ check_mtimes(i, f) # {} /\ output_mtimes(i, f) # {}
       /\ Max(check_mtimes(i, f)) <= Max(output_mtimes(i, f))
    \/ check_files(i) = {}

\* (outputs and outputs_exist() and ((check_mtimes() and output_mtimes())
\*  and (max(check_mtimes()) <= max(output_mtimes())) or not check_files))
outputs_up_to_date(i, f) ==
    /\ outputs(i) # {}
    /\ outputs_exist(i, f)
    /\ \/ /\ check_mtimes(i, f) # {} /\ output_mtimes(i, f) # {}
          /\ Max(check_mtimes(i, f)) <= Max(output_mtimes(i, f))
       \/ check_files(i) = {}

\* File.remove / utils.remove on the regular files of the model
remove(f, file) == [f EXCEPT ![file] = NoFile]

RECURSIVE RemoveAll(_, _)
RemoveAll(f, S) ==
    IF S = {} THEN f
    ELSE LET x == CHOOSE y \in S : TRUE IN RemoveAll(remove(f, x), S \ {x})

\* A plausible slip: the registry is assigned, not extended.
extendAssigns(registry, files) == files

\* self.temp_files.extend(temp_files)
extend(registry, files) == registry \o files

\* the trees a loop of remove() over S can leave when os.remove or
\* shutil.rmtree raises on one of the files: that file is still there, any
\* of the others has been removed before it
RemoveFailures(f, S) ==
    {RemoveAll(f, D) : D \in UNION {SUBSET (S \ {bad}) : bad \in {x \in S : exists(f, x)}}}

\* A plausible slip: clean() removes the check files with the outputs and
\* does not test outputs_exist().
CleanedFsInputs(i, f) == RemoveAll(f, output_files(i) \cup check_files(i))

\* clean(): the files are removed only when outputs_exist()
CleanedFs(i, f) == IF outputs_exist(i, f) THEN RemoveAll(f, output_files(i)) ELSE f

SetValue(S) == [kind |-> "fileset", files |-> S]

coalesce_default_outputs(i) ==
    LET target_params == {i.args[k] : k \in i.targets} IN
    IF Cardinality(i.targets) = 1 /\ ~is_iterable(i.args[CHOOSE k \in i.targets : TRUE])
    THEN i.args[CHOOSE k \in i.targets : TRUE]
    ELSE SetValue(output_files(i))

Returned(v) == [tag |-> "return", val |-> v]
Raised(e) == [tag |-> "raise", val |-> e]
NoResult == [tag |-> "none", val |-> "none"]

\* A plausible slip: the freshness test comes before the clean flag.
BranchStaleFirst(i, f, c) ==
    IF ~outputs_up_to_date(i, f) THEN "build" ELSE IF c THEN "clean" ELSE "skip"

\* the if / elif / else that ends wrapper
Branch(i, f, c) ==
    IF c THEN "clean" ELSE IF ~outputs_up_to_date(i, f) THEN "build" ELSE "skip"

\* every order in which a set can be iterated
Orderings(S) ==
    {s \in [1..Cardinality(S) -> S] : \A a, b \in DOMAIN s : a # b => s[a] # s[b]}

(***************************************************************************)
(* Actions of the recipe wrapper.                                          *)
(***************************************************************************)
RecipeIdle == rpc = "idle"

\* wrapper in clean mode: clean() and the coalesced result
WrapperClean(i) ==
    /\ RecipeIdle
    /\ Branch(i, fs, cleaning) = "clean"
    /\ fs' = CleanedFs(i, fs)
    /\ inv' = i
    /\ invoked' = 0
    /\ result' = Returned(coalesce_default_outputs(i))
    /\ rpc' = "done"
    /\ UNCHANGED <<temp_files, cleaning>>
    /\ UNCHANGED notRecipeVars

\* wrapper in clean mode: a File.remove of clean() raises, and nothing
\* between it and the caller catches the error
WrapperCleanFails(i) ==
    /\ RecipeIdle
    /\ Branch(i, fs, cleaning) = "clean"
    /\ outputs_exist(i, fs)
    /\ fs' \in RemoveFailures(fs, output_files(i))
    /\ inv' = i
    /\ invoked' = 0
    /\ result' = Raised("OSError")
    /\ rpc' = "done"
    /\ UNCHANGED <<temp_files, cleaning>>
    /\ UNCHANGED notRecipeVars

\* wrapper, normal mode, outputs up to date: nothing to do
WrapperSkip(i) ==
    /\ RecipeIdle
    /\ Branch(i, fs, cleaning) = "skip"
    /\ inv' = i
    /\ invoked' = 0
    /\ result' = Returned(coalesce_default_outputs(i))
    /\ rpc' = "done"
    /\ UNCHANGED <<fs, temp_files, cleaning>>
    /\ UNCHANGED notRecipeVars

\* wrapper, normal mode, stale: build_recipe() calls the producer and awaits it
WrapperBuild(i) ==
    /\ RecipeIdle
    /\ Branch(i, fs, cleaning) = "build"
    /\ inv' = i
    /\ invoked' = 1
    /\ result' = NoResult
    /\ rpc' = "producing"
    /\ UNCHANGED <<fs, temp_files, cleaning>>
    /\ UNCHANGED notRecipeVars

\* the producer returns, having left the filesystem as f2 (it is user code);
\* build_recipe records the temp files and checks the outputs again
ProducerReturns(f2, order) ==
    /\ rpc = "producing"
    /\ fs' = f2
    /\ temp_files' = extend(temp_files, order)
    /\ result' = IF ~outputs_up_to_date(inv, f2)
                 THEN Raised("BuildError")
                 ELSE Returned(Str("producer-result"))
    /\ rpc' = "done"
    /\ UNCHANGED <<cleaning, inv, invoked>>
    /\ UNCHANGED notRecipeVars

\* A plausible slip: the temp files are registered before the producer is
\* awaited, so that a producer that raises has registered them.
ProducerRaisesRegistered(f2) ==
    /\ rpc = "producing"
    /\ fs' = f2
    /\ \E order \in Orderings(invTempFiles(inv)) :
          temp_files' = extend(temp_files, order)
    /\ result' = Raised("JobError")
    /\ rpc' = "done"
    /\ UNCHANGED <<cleaning, inv, invoked>>
    /\ UNCHANGED notRecipeVars

\* the producer raises: the exception leaves build_recipe and wrapper
ProducerRaises(f2) ==
    /\ rpc = "producing"
    /\ fs' = f2
    /\ result' = Raised("JobError")
    /\ rpc' = "done"
    /\ UNCHANGED <<temp_files, cleaning, inv, invoked>>
    /\ UNCHANGED notRecipeVars

(***************************************************************************)
(* The shell runner: Shell.__call__ (bakery/shell.py), the same code as    *)
(* Build.shell (bakery/core.py).                                           *)
(***************************************************************************)
CPU_CORES == 2

Tasks == 1..MaxTasks
Streams == {"stdout", "stderr"}

\* The bytes of a line: x, y, SP (a blank) and NL (the newline that ends it).
\* readline() returns a line with its newline, and the empty bytes at EOF.
RawLines == {<<"x", "NL">>, <<"SP", "y", "SP", "NL">>, <<"NL">>}
Whitespace == {"SP", "NL"}

RECURSIVE lstrip(_)
lstrip(l) == IF l # <<>> /\ Head(l) \in Whitespace THEN lstrip(Tail(l)) ELSE l

RECURSIVE rstrip(_)
rstrip(l) ==
    IF l # <<>> /\ l[Len(l)] \in Whitespace
    THEN rstrip(SubSeq(l, 1, Len(l) - 1)) ELSE l

\* line.decode('utf-8').strip(): whitespace is removed at both ends
strip(l) == lstrip(rstrip(l))

\* the argument tuples shell is called with in the model
ArgsCompile == <<Str("cc"), List(<<>>), Str("-c"), Str("a.c")>>
ArgsLink == <<Str("cc"), List(<<Str("a.o"), List(<<Str("b.o")>>)>>), Str("-o"), Str("out")>>
ArgsMake == <<Str("make"), Generator(<<Str("-j"), IntVal(4)>>)>>
ShellArgs == {ArgsCompile, ArgsLink, ArgsMake}

\* compose(lambda x: flat_map(x, degenerate), lambda x: flat_map(x, str))(args)
CmdLine(args) ==
    LET x1 == flat_map([kind |-> "tuple", path |-> "", items |-> args, num |-> 0],
                       "degenerate")
        x2 == flat_map(List(x1), "str")
    IN [k \in DOMAIN x2 |-> x2[k].path]

SeqsUpTo(S, n) == UNION {[1..k -> S] : k \in 0..n}

\* A call: the arguments, and what the subprocess does: whether it can be
\* spawned, the lines it writes to each stream, and its exit code.
SpawnFailure == [args |-> ArgsCompile, spawns |-> FALSE, out |-> <<>>, err |-> <<>>, rc |-> 0]
QuietSuccess == [args |-> ArgsCompile, spawns |-> TRUE, out |-> <<>>, err |-> <<>>, rc |-> 0]
NoisyFailure == [args |-> ArgsCompile, spawns |-> TRUE, out |-> <<>>,
                 err |-> << <<"SP", "y", "SP", "NL">> >>, rc |-> 1]

\* the calls of the concurrent runs
ConcurrentCalls == {SpawnFailure, QuietSuccess, NoisyFailure}

\* the calls of the runs of one invocation
SingleCalls ==
    [args : ShellArgs, spawns : {TRUE}, out : SeqsUpTo(RawLines, MaxLines),
     err : SeqsUpTo(RawLines, MaxLines), rc : {0, 1}] \cup {SpawnFailure}

NoShellResult ==
    [tag |-> "none", exc |-> "", cmd_line |-> <<>>, output |-> <<>>,
     err_output |-> <<>>, returncode |-> 0]

ShellReturned(out) ==
    [tag |-> "return", exc |-> "", cmd_line |-> <<>>, output |-> out,
     err_output |-> <<>>, returncode |-> 0]

\* exceptions.SubprocessError(cmd_line, output, err_output, returncode)
SubprocessError(cmd, out, err, rc) ==
    [tag |-> "raise", exc |-> "SubprocessError", cmd_line |-> cmd, output |-> out,
     err_output |-> err, returncode |-> rc]

SpawnError ==
    [tag |-> "raise", exc |-> "OSError", cmd_line |-> <<>>, output |-> <<>>,
     err_output |-> <<>>, returncode |-> 0]

\* A plausible slip: the two buffers change places.
ExitResultSwapped(cmd, out, err, rc) ==
    IF rc # 0 THEN SubprocessError(cmd, err, out, rc) ELSE ShellReturned(err)

\* if proc.returncode != 0: raise SubprocessError(...) else: return output
ExitResult(cmd, out, err, rc) ==
    IF rc # 0 THEN SubprocessError(cmd, out, err, rc) ELSE ShellReturned(out)

\* A plausible slip: the semaphore never makes a caller wait.
CanAcquireAlways(l) == TRUE

\* BoundedSemaphore.acquire returns once a permit is left
CanAcquire(l) == l > 0

\* A plausible slip: the permit of an invocation that is over is not given
\* back.
releaseNot(l) == l

\* BoundedSemaphore.release
release(l) == l + 1

\* A plausible slip: the spawn is outside the try whose finally releases.
ReleasedAfterSpawnFailureNot(l) == l

\* finally: Shell.limiter.release(), reached when the spawn raises
ReleasedAfterSpawnFailure(l) == release(l)

\* await Shell.limiter.acquire(), then the code up to the spawn
Acquire(p) ==
    /\ spc[p] = "waiting"
    /\ CanAcquire(limiter)
    /\ limiter' = limiter - 1
    /\ cmd_line' = [cmd_line EXCEPT ![p] = CmdLine(call[p].args)]
    /\ output' = [output EXCEPT ![p] = <<>>]
    /\ err_output' = [err_output EXCEPT ![p] = <<>>]
    /\ spc' = [spc EXCEPT ![p] = "spawning"]
    /\ UNCHANGED <<call, readline_tasks, rpos, sresult>>
    /\ UNCHANGED notShellVars

\* A plausible slip: only stdout is read.
FirstTasksStdout == {"stdout"}

\* readline_tasks = {Task(proc.stdout.readline()): ..., Task(proc.stderr.readline()): ...}
FirstTasks == {"stdout", "stderr"}

\* create_subprocess_exec returns; a readline task is started on each stream
SpawnSucceeds(p) ==
    /\ spc[p] = "spawning"
    /\ call[p].spawns
    /\ readline_tasks' = [readline_tasks EXCEPT ![p] = FirstTasks]
    /\ spc' = [spc EXCEPT ![p] = "reading"]
    /\ UNCHANGED <<limiter, call, cmd_line, rpos, output, err_output, sresult>>
    /\ UNCHANGED notShellVars

\* create_subprocess_exec raises: the finally clause releases the permit
SpawnFails(p) ==
    /\ spc[p] = "spawning"
    /\ ~call[p].spawns
    /\ limiter' = ReleasedAfterSpawnFailure(limiter)
    /\ sresult' = [sresult EXCEPT ![p] = SpawnError]
    /\ spc' = [spc EXCEPT ![p] = "done"]
    /\ UNCHANGED <<call, cmd_line, readline_tasks, rpos, output, err_output>>
    /\ UNCHANGED notShellVars

StreamLines(p, s) == IF s = "stdout" THEN call[p].out ELSE call[p].err

\* a readline task completes with a line: it is stripped, appended to the
\* buffer of its stream, and a new readline task is started on the stream
ReadLine(p, s) ==
    /\ spc[p] = "reading"
    /\ s \in readline_tasks[p]
    /\ rpos[p][s] < Len(StreamLines(p, s))
    /\ LET line == strip(StreamLines(p, s)[rpos[p][s] + 1]) IN
         IF s = "stdout"
         THEN /\ output' = [output EXCEPT ![p] = Append(@, line)]
              /\ UNCHANGED err_output
         ELSE /\ err_output' = [err_output EXCEPT ![p] = Append(@, line)]
              /\ UNCHANGED output
    /\ rpos' = [rpos EXCEPT ![p][s] = @ + 1]
    /\ UNCHANGED <<limiter, spc, call, cmd_line, readline_tasks, sresult>>
    /\ UNCHANGED notShellVars

\* a readline task completes with the empty bytes: the stream is at EOF and
\* no new task is started; with no task left the loop ends
ReadEOF(p, s) ==
    /\ spc[p] = "reading"
    /\ s \in readline_tasks[p]
    /\ rpos[p][s] = Len(StreamLines(p, s))
    /\ readline_tasks' = [readline_tasks EXCEPT ![p] = @ \ {s}]
    /\ spc' = [spc EXCEPT ![p] = IF readline_tasks[p] = {s} THEN "waitproc" ELSE "reading"]
    /\ UNCHANGED <<limiter, call, cmd_line, rpos, output, err_output, sresult>>
    /\ UNCHANGED notShellVars

\* proc.wait() returns: return or raise by the exit code, then the finally.
\* The subprocess can only exit when what it has written and nobody has read
\* fits in its pipes.
ProcExits(p) ==
    /\ spc[p] = "waitproc"
    /\ \A s \in Streams : Len(StreamLines(p, s)) - rpos[p][s] <= PipeCap
    /\ sresult' = [sresult EXCEPT
                     ![p] = ExitResult(cmd_line[p], output[p], err_output[p], call[p].rc)]
    /\ limiter' = release(limiter)
    /\ spc' = [spc EXCEPT ![p] = "done"]
    /\ UNCHANGED <<call, cmd_line, readline_tasks, rpos, output, err_output>>
    /\ UNCHANGED notShellVars

ShellNext ==
    \E p \in Tasks :
        \/ Acquire(p)
        \/ SpawnSucceeds(p)
        \/ SpawnFails(p)
        \/ \E s \in Streams : ReadLine(p, s)
        \/ \E s \in Streams : ReadEOF(p, s)
        \/ ProcExits(p)

\* the shell runner before any step, with the given invocations started
ShellReady(started) ==
    /\ limiter = CPU_CORES
    /\ spc = [p \in Tasks |-> IF p \in started THEN "waiting" ELSE "unused"]
    /\ cmd_line = [p \in Tasks |-> <<>>]
    /\ readline_tasks = [p \in Tasks |-> {}]
    /\ rpos = [p \in Tasks |-> [s \in Streams |-> 0]]
    /\ output = [p \in Tasks |-> <<>>]
    /\ err_output = [p \in Tasks |-> <<>>]
    /\ sresult = [p \in Tasks |-> NoShellResult]

ShellQuiet == ShellReady({}) /\ call = [p \in Tasks |-> QuietSuccess]

(***************************************************************************)
(* The evaluator: Build.build and Build._evaluate_card (bakery.py) over    *)
(* the cards of build_eval_deck (bakery/utils.py).  The injector is the    *)
(* xeno library; it is modelled from section 4.1 of the specification.     *)
(***************************************************************************)
Names == {"a", "b", "c"}
Kinds == {"sync", "async", "list"}
Decls == {"provide", "singleton", "target"}

\* A plausible slip: target is composed without singleton.
TargetAttrsNotSingleton == {"coroutine", "bakery-target"}

\* target = compose(asyncio.coroutine, singleton, method_attr('bakery-target'))
TargetAttrs == {"coroutine", "singleton", "bakery-target"}

Attrs(n) ==
    IF decl[n] = "target" THEN TargetAttrs
    ELSE IF decl[n] = "singleton" THEN {"singleton"} ELSE {}

IsSingleton(n) == "singleton" \in Attrs(n)

\* what a call of the producer yields: a coroutine, a list or a plain value
Yields(n) == IF "coroutine" \in Attrs(n) THEN "async" ELSE body[n]

\* elements of the values: a coroutine not yet spliced, a plain element, or
\* the awaited result of the coroutine at index `at` of resource `of`
\* (index 0 is the resource's own coroutine)
Element(tag, n, i) == [tag |-> tag, of |-> n, at |-> i]
ListShape == <<"coro", "plain", "coro">>
NewList(n) == [i \in 1..Len(ListShape) |-> Element(ListShape[i], n, i)]
CoroIndexes(l) == {i \in DOMAIN l : l[i].tag = "coro"}

NotProvided == [kind |-> "none", items |-> <<>>]
ScalarValue(e) == [kind |-> "scalar", items |-> <<e>>]
ListValue(l) == [kind |-> "list", items |-> l]

RECURSIVE ClosureFrom(_)
ClosureFrom(S) ==
    LET S2 == S \cup UNION {deps[n] : n \in S}
    IN IF S2 = S THEN S ELSE ClosureFrom(S2)

\* injector.get_dependency_graph(*targets): the graph restricted to what the
\* targets reach
get_dependency_graph(roots) == [n \in ClosureFrom(roots) |-> deps[n]]

\* A plausible slip: processed_set grows while the card is being scanned, so
\* a target joins the card of its dependencies.
RECURSIVE CardSetEagerFrom(_, _, _, _)
CardSetEagerFrom(dep_graph, todo_set, processed_set, card_set) ==
    LET more == {t \in todo_set \ card_set :
                    \A x \in dep_graph[t] : x \in processed_set \cup card_set}
    IN IF more = {} THEN card_set
       ELSE CardSetEagerFrom(dep_graph, todo_set, processed_set, card_set \cup more)

CardSetEager(dep_graph, todo_set, processed_set) ==
    CardSetEagerFrom(dep_graph, todo_set, processed_set, {})

\* the targets whose dependencies are all processed
CardSet(dep_graph, todo_set, processed_set) ==
    {t \in todo_set : \A x \in dep_graph[t] : x \in processed_set}

\* A plausible slip: the loop is left instead of raising.
OnEmptyCardBreak(deck) == [raised |-> FALSE, deck |-> deck]

\* if not card_set: raise EvaluationError(...)
OnEmptyCard(deck) == [raised |-> TRUE, deck |-> deck]

RECURSIVE DeckLoopOnePerCard(_, _, _, _)
\* A plausible slip: one resource is dealt per card.
DeckLoopOnePerCard(dep_graph, todo_set, processed_set, deck) ==
    IF todo_set = {} THEN [raised |-> FALSE, deck |-> deck]
    ELSE LET ready == CardSet(dep_graph, todo_set, processed_set) IN
         IF ready = {} THEN OnEmptyCard(deck)
         ELSE LET card_set == {CHOOSE t \in ready : TRUE} IN
              DeckLoopOnePerCard(dep_graph, todo_set \ card_set,
                                 processed_set \cup card_set,
                                 Append(deck, card_set))

RECURSIVE DeckLoop(_, _, _, _)
\* the while loop of build_eval_deck
DeckLoop(dep_graph, todo_set, processed_set, deck) ==
    IF todo_set = {} THEN [raised |-> FALSE, deck |-> deck]
    ELSE LET card_set == CardSet(dep_graph, todo_set, processed_set) IN
         IF card_set = {} THEN OnEmptyCard(deck)
         ELSE DeckLoop(dep_graph,
                       (todo_set \ card_set) \cup (card_set \ todo_set),
                       processed_set \cup card_set,
                       Append(deck, card_set))

build_eval_deck(roots) ==
    LET dep_graph == get_dependency_graph(roots)
    IN DeckLoop(dep_graph, DOMAIN dep_graph, {}, <<>>)

\* what the injector and the producers have done so far
Progress == [calls |-> calls, cached |-> cached, effects |-> effects, late |-> late]

\* the producer of n, or the coroutine it returned, runs: a side effect of n
SideEffect(n, st) ==
    [st EXCEPT !.effects = @ \cup {n},
               !.late = IF \E b \in st.effects : n \in deps[b] THEN @ \cup {n} ELSE @]

\* the producer of n is invoked; a coroutine function only creates its
\* coroutine, whose body runs when it is awaited
Produce(n, st) ==
    LET st1 == [st EXCEPT !.calls[n] = @ + 1,
                          !.cached = IF IsSingleton(n) THEN @ \cup {n} ELSE @]
    IN IF Yields(n) = "async" THEN st1 ELSE SideEffect(n, st1)

RECURSIVE Require(_, _)
RECURSIVE RequireAll(_, _)
\* injector.require(name): the cached or provided value of a singleton, else
\* the dependencies are resolved and the producer is invoked
Require(n, st) ==
    IF provided[n].kind # "none" \/ (IsSingleton(n) /\ n \in st.cached)
    THEN st
    ELSE Produce(n, RequireAll(deps[n], st))

RequireAll(S, st) ==
    IF S = {} THEN st
    ELSE LET x == CHOOSE y \in S : TRUE IN RequireAll(S \ {x}, Require(x, st))

NoLists == [n \in Names |-> NotProvided]

\* the coroutines _evaluate_card gathers: the coroutine values and the
\* coroutine elements of the list values
Gathered(cm, lm) ==
    {Element("coro", n, 0) : n \in cm}
    \cup UNION {{Element("coro", n, i) : i \in CoroIndexes(lm[n].items)} : n \in Names}

ListKeys == {n \in Names : coro_value_list_map[n].kind = "list"}

\* The dispatch lambdas read target, coro_value_list and x when they are
\* called, after the loops: every lambda sees the last target (of the list
\* loop if it ran, else of the coroutine loop), the last list and the last
\* index.  The order of the loops over a dict or set is not fixed here.
DispatchOutcomes ==
    IF completed = {} THEN {provided}
    ELSE IF ListKeys # {}
    THEN {[provided EXCEPT ![lt] =
              LET l == coro_value_list_map[lt].items
                  x == Max(CoroIndexes(l))
              IN ListValue([l EXCEPT ![x] = Element("value", lt, x)])]
          : lt \in ListKeys}
    ELSE {[provided EXCEPT ![lt] = ScalarValue(Element("value", t, 0))]
          : lt \in coro_map, t \in coro_map}

\* build(): build_eval_deck raises EvaluationError
BuildDeckRaises ==
    /\ epc = "start"
    /\ build_eval_deck(targets).raised
    /\ epc' = "done"
    /\ error' = "EvaluationError"
    /\ UNCHANGED <<deps, decl, body, targets, eval_deck, level, todo, coro_map,
                   coro_value_list_map, awaiting, completed, calls, cached,
                   provided, effects, late>>
    /\ UNCHANGED notEvalVars

\* build(): build_eval_deck returns and the first card is taken up
BuildDeckReturns ==
    /\ epc = "start"
    /\ ~build_eval_deck(targets).raised
    /\ eval_deck' = build_eval_deck(targets).deck
    /\ level' = 1
    /\ IF eval_deck' # <<>>
       THEN epc' = "require" /\ todo' = eval_deck'[1]
       ELSE epc' = "final" /\ todo' = {}
    /\ UNCHANGED <<deps, decl, body, targets, coro_map, coro_value_list_map,
                   awaiting, completed, calls, cached, provided, effects, late,
                   error>>
    /\ UNCHANGED notEvalVars

\* _evaluate_card: resource = await injector.require_async(target), sorted
\* into coro_map or coro_value_list_map; after the last target of the card
\* the coroutines are gathered
RequireInCard(t) ==
    /\ epc = "require"
    /\ t \in todo
    /\ LET st == Require(t, Progress)
           yields == IF provided[t].kind # "none" THEN provided[t].kind ELSE Yields(t)
           cm == IF yields = "async" THEN coro_map \cup {t} ELSE coro_map
           lm == IF yields = "list"
                 THEN [coro_value_list_map EXCEPT ![t] =
                          IF provided[t].kind = "list" THEN provided[t]
                          ELSE ListValue(NewList(t))]
                 ELSE coro_value_list_map
       IN /\ calls' = st.calls
          /\ cached' = st.cached
          /\ effects' = st.effects
          /\ late' = st.late
          /\ coro_map' = cm
          /\ coro_value_list_map' = lm
          /\ todo' = todo \ {t}
          /\ IF todo = {t}
             THEN epc' = "gather" /\ awaiting' = Gathered(cm, lm)
             ELSE UNCHANGED <<epc, awaiting>>
    /\ UNCHANGED <<deps, decl, body, targets, eval_deck, level, completed,
                   provided, error>>
    /\ UNCHANGED notEvalVars

\* a gathered coroutine runs to its end
AwaitCompletes(aw) ==
    /\ epc = "gather"
    /\ aw \in awaiting
    /\ awaiting' = awaiting \ {aw}
    /\ completed' = completed \cup {aw}
    /\ LET st == SideEffect(aw.of, Progress)
       IN effects' = st.effects /\ late' = st.late
    /\ UNCHANGED <<deps, decl, body, targets, epc, eval_deck, level, todo,
                   coro_map, coro_value_list_map, calls, cached, provided, error>>
    /\ UNCHANGED notEvalVars

\* a gathered coroutine raises: gather, _evaluate_card and build() raise at
\* once; the coroutines still pending are left as they are
AwaitFails(aw) ==
    /\ epc = "gather"
    /\ aw \in awaiting
    /\ awaiting' = awaiting \ {aw}
    /\ LET st == SideEffect(aw.of, Progress)
       IN effects' = st.effects /\ late' = st.late
    /\ epc' = "done"
    /\ error' = "JobError"
    /\ UNCHANGED <<deps, decl, body, targets, eval_deck, level, todo, coro_map,
                   coro_value_list_map, completed, calls, cached, provided>>
    /\ UNCHANGED notEvalVars

\* every gathered coroutine is done: the dispatch lambdas run, the waiting
\* futures are gathered, and build() goes on to the next card
Dispatch ==
    /\ epc = "gather"
    /\ awaiting = {}
    /\ provided' \in DispatchOutcomes
    /\ coro_map' = {}
    /\ coro_value_list_map' = NoLists
    /\ completed' = {}
    /\ level' = level + 1
    /\ IF level < Len(eval_deck)
       THEN epc' = "require" /\ todo' = eval_deck[level + 1]
       ELSE epc' = "final" /\ todo' = {}
    /\ UNCHANGED <<deps, decl, body, targets, eval_deck, awaiting, calls, cached,
                   effects, late, error>>
    /\ UNCHANGED notEvalVars

\* return [injector.require(target) for target in targets]
FinalRequire ==
    /\ epc = "final"
    /\ LET st == RequireAll(targets, Progress)
       IN /\ calls' = st.calls
          /\ cached' = st.cached
          /\ effects' = st.effects
          /\ late' = st.late
    /\ epc' = "done"
    /\ error' = "none"
    /\ UNCHANGED <<deps, decl, body, targets, eval_deck, level, todo, coro_map,
                   coro_value_list_map, awaiting, completed, provided>>
    /\ UNCHANGED notEvalVars

EvalNext ==
    \/ BuildDeckRaises
    \/ BuildDeckReturns
    \/ \E t \in Names : RequireInCard(t)
    \/ \E aw \in awaiting : AwaitCompletes(aw)
    \/ \E aw \in awaiting : AwaitFails(aw)
    \/ Dispatch
    \/ FinalRequire

\* the evaluator before build() is called, but for the modules and targets
EvalReady ==
    /\ epc = "start"
    /\ eval_deck = <<>>
    /\ level = 0
    /\ todo = {}
    /\ coro_map = {}
    /\ coro_value_list_map = NoLists
    /\ awaiting = {}
    /\ completed = {}
    /\ calls = [n \in Names |-> 0]
    /\ cached = {}
    /\ provided = [n \in Names |-> NotProvided]
    /\ effects = {}
    /\ late = {}
    /\ error = ""

EvalQuiet ==
    /\ EvalReady
    /\ deps = [n \in Names |-> {}]
    /\ decl = [n \in Names |-> "provide"]
    /\ body = [n \in Names |-> "sync"]
    /\ targets = {"c"}

RECURSIVE ReachedBy(_, _)
\* the resources a graph g reaches from some roots
ReachedBy(g, roots) ==
    LET more == roots \cup UNION {g[n] : n \in roots}
    IN IF more = roots THEN roots ELSE ReachedBy(g, more)

HasCycle(g, roots) == \E n \in ReachedBy(g, roots) : n \in ReachedBy(g, g[n])

\* the ways a resource is declared: @target makes a singleton coroutine
Forms ==
    {<<"target", "async">>} \cup ({"provide", "singleton"} \X Kinds)

\* The modules and targets build() is called with.  What is never read is
\* held fixed: the declarations of the resources the targets do not reach,
\* and all declarations when the targets reach a cycle.
EvalConfigs ==
    {c \in [deps : [Names -> SUBSET Names], forms : [Names -> Forms],
            targets : {{"c"}, {"b", "c"}}] :
        \A n \in Names :
            (n \notin ReachedBy(c.deps, c.targets) \/ HasCycle(c.deps, c.targets))
                => c.forms[n] = <<"provide", "sync">>}

(***************************************************************************)
(* The build driver: Build.build of bakery/core.py, on a module shaped     *)
(* like the demo Bakefile (sources -> objects -> executable, with the      *)
(* compile and link recipes), with setup resources besides.  The injector  *)
(* is modelled from section 4.1 of the specification.                      *)
(***************************************************************************)
Resources == {"prepare", "tools", "sources", "objects", "executable"}
Jobs == {"a", "b", "link"}
Sources == {"a.c", "b.c"}
BuildFiles == {"a.c", "b.c", "a.o", "b.o", "out"}

\* the parameter names of the resources of the module
bdeps ==
    [r \in Resources |->
        IF r = "tools" THEN {"prepare"}
        ELSE IF r = "objects" THEN {"sources"}
        ELSE IF r = "executable" THEN {"objects"}
        ELSE {}]

\* the resources the module registers
Registered == {"sources", "objects", "executable"} \cup setups

\* A plausible slip: setup composes only the bakery-setup attribute.
SetupAttrsNotSingleton == {"bakery-setup"}

\* setup = compose(singleton, method_attr('bakery-setup'))
SetupAttrs == {"singleton", "bakery-setup"}

\* default = compose(target, method_attr('bakery-default'))
DefaultAttrs == TargetAttrs \cup {"bakery-default"}

\* the attributes of a resource of the module: sources is a plain @provide
Tags(r) ==
    IF r \in {"prepare", "tools"} THEN SetupAttrs
    ELSE IF r \in defaults THEN DefaultAttrs
    ELSE IF r \in module_targets THEN TargetAttrs
    ELSE {}

\* injector.scan_resources(lambda name, attr: attr.check(tag)): tuples of a
\* name and its attributes
ScanItem(r) == [kind |-> "tuple", name |-> r]
scan_resources(tag) == {ScanItem(r) : r \in {x \in Registered : tag \in Tags(x)}}

_find_setup_methods == {r.name : r \in scan_resources("bakery-setup")}
_find_targets == {r.name : r \in scan_resources("bakery-target")}

\* TargetConflictError.__init__: ', '.join(targets) raises TypeError unless
\* every item is a str
TargetConflictError(message, results) ==
    IF \A t \in results : t.kind = "str" THEN "TargetConflictError" ELSE "TypeError"

\* A plausible slip: without a default there is no fallback to the targets.
DefaultFallbackNone(results) == {}

\* if not results: results = list(scan_resources(... 'bakery-target'))
DefaultFallback(results) ==
    IF results = {} THEN scan_resources("bakery-target") ELSE results

OneDefault(results) == [raised |-> "", names |-> {r.name : r \in results}]

\* elif len(results) > 1: raise TargetConflictError(...)
DefaultConflict(results) ==
    IF Cardinality(results) > 1
    THEN [raised |-> TargetConflictError("Multiple default targets defined.", results),
          names |-> {}]
    ELSE OneDefault(results)

\* _find_default_target: what it raises, or the names results[0][0] can be
\* (the order of the scan is the injector's); None when there is no target
_find_default_target ==
    LET results == scan_resources("bakery-default") IN
    IF results = {}
    THEN [raised |-> "",
          names |-> IF DefaultFallback(results) = {} THEN {"None"}
                    ELSE {r.name : r \in DefaultFallback(results)}]
    ELSE DefaultConflict(results)

\* a call of build(): the targets argument, Build.interactive and
\* config.targets
BuildCall(t, i, c) == [targets |-> t, interactive |-> i, config_targets |-> c]

Requests ==
    {<<>>, <<"executable">>, <<"objects">>, <<"objects", "executable">>,
     <<"sources">>, <<"nosuch">>, <<"executable", "nosuch">>}

BuildCalls ==
    {BuildCall(t, FALSE, <<>>) : t \in Requests}
    \cup {BuildCall(<<>>, TRUE, c) : c \in {<<>>, <<"objects">>}}

NoCall == BuildCall(<<>>, FALSE, <<>>)

\* the demo Bakefile is built by @build: build(Bakefile)
DemoCalls == {BuildCall(<<>>, FALSE, <<>>)}

\* if Build.interactive and not targets: targets = self.config.targets
ConfiguredTargets(c) ==
    IF c.interactive /\ c.targets = <<>> THEN c.config_targets ELSE c.targets

\* the positional TARGET names of a bake command line
CommandLines == {<<>>, <<"objects">>, <<"executable">>, <<"objects", "executable">>}

\* bake.py configure(): the parsed names are stored in build.targets and the
\* flag in build.interactive, attributes of the instance `build`; the class
\* attribute Build.interactive (False) and Build.config.targets ([]), a
\* Config of core.py that is never parsed, are what they were
configure(names) ==
    [Build_interactive |-> FALSE, Build_config_targets |-> <<>>,
     build_interactive |-> TRUE, build_targets |-> names]

\* the bakefile run by bake calls build(Module): no explicit targets;
\* Build.build reads Build.interactive and self.config.targets
BakeCall(names) ==
    BuildCall(<<>>, configure(names).Build_interactive,
              configure(names).Build_config_targets)

\* A plausible slip: the requested targets are not validated.
UnknownTargetsNone(ts) == {}

\* the requested targets that are not valid targets
UnknownTargets(ts) == {ts[k] : k \in DOMAIN ts} \ _find_targets

IsSingletonResource(r) == "singleton" \in Tags(r)

RECURSIVE RequirePlan(_, _)
RECURSIVE RequirePlanAll(_, _)
\* injector.require(name): the producers it invokes, in order, when the
\* singletons in done are cached
RequirePlan(r, done) ==
    IF r \notin Registered THEN <<r>>
    ELSE IF IsSingletonResource(r) /\ r \in done THEN <<>>
    ELSE RequirePlanAll(bdeps[r], done) \o <<r>>

RequirePlanAll(S, done) ==
    IF S = {} THEN <<>>
    ELSE LET x == CHOOSE y \in S : TRUE
             first == RequirePlan(x, done)
         IN first \o RequirePlanAll(S \ {x},
                done \cup {y \in Range(first) : IsSingletonResource(y)})

\* the recipe invocations the producers of the module await
JobsOf(r) ==
    IF r = "objects" THEN {"a", "b"} ELSE IF r = "executable" THEN {"link"} ELSE {}

OutFile(j) == IF j = "a" THEN "a.o" ELSE IF j = "b" THEN "b.o" ELSE "out"
SrcFile(j) == IF j = "a" THEN "a.c" ELSE "b.c"

\* A plausible slip: every compile recipe declares its object as a temp
\* file, as the compile recipe of the demo Bakefile does.
CompileInvTemp(j) ==
    [targets |-> {}, check |-> {"src"}, temp |-> {"obj"},
     args |-> [k \in {"src", "obj"} |->
                  IF k = "src" THEN Str(SrcFile(j)) ELSE Str(OutFile(j))]]

\* compile(src, obj): @recipe('obj', check='src') in recipes/c.py,
\* @recipe(check='src', temp='obj') in the demo Bakefile
CompileInv(j) ==
    [targets |-> IF obj_role = "target" THEN {"obj"} ELSE {},
     check |-> {"src"},
     temp |-> IF obj_role = "temp" THEN {"obj"} ELSE {},
     args |-> [k \in {"src", "obj"} |->
                  IF k = "src" THEN Str(SrcFile(j)) ELSE Str(OutFile(j))]]

\* A plausible slip: link declares no check role.
LinkInvNoCheck ==
    [targets |-> {"executable"}, check |-> {}, temp |-> {},
     args |-> [k \in {"objects", "executable"} |->
                  IF k = "objects" THEN List(<<Str("a.o"), Str("b.o")>>)
                  ELSE Str("out")]]

\* link(objects, executable): @recipe('executable', check='objects')
LinkInv ==
    [targets |-> {"executable"}, check |-> {"objects"}, temp |-> {},
     args |-> [k \in {"objects", "executable"} |->
                  IF k = "objects" THEN List(<<Str("a.o"), Str("b.o")>>)
                  ELSE Str("out")]]

JobInv(j) == IF j = "link" THEN LinkInv ELSE CompileInv(j)

\* A plausible slip: the registry is kept but nothing is removed.
CleanTempFilesNone(f, registry) == f

\* A plausible slip: only the first entry of the registry is removed.
CleanTempFilesFirst(f, registry) ==
    IF registry = <<>> THEN f ELSE remove(f, registry[1])

\* _clean_temp_files: every entry of the registry that exists is removed
CleanTempFiles(f, registry) == RemoveAll(f, Range(registry))

\* what is known of the tree since the last build() ended: whether that
\* build succeeded in normal mode, and the sources whose mtime was raised
NoBasis == [ok |-> FALSE, touched |-> {}, above |-> {}, cleaned |-> FALSE, kept |-> {}]

\* the targets build() settles on: the configured ones, or the default
ResolvedTargets(c) ==
    IF ConfiguredTargets(c) # <<>> THEN {ConfiguredTargets(c)}
    ELSE {<<d>> : d \in _find_default_target.names}

\* build() is entered: a new injector, and the counters of this build
BuildEntered(c, cl) ==
    /\ bpc = "idle"
    /\ build_count < MaxBuilds
    /\ build_count' = build_count + 1
    /\ cleaning' = cl
    /\ bcall' = c
    /\ bcached' = {}
    /\ plan' = <<>>
    /\ jpc' = [j \in Jobs |-> "idle"]
    /\ produced' = [r \in Resources |-> 0]
    /\ jobruns' = [j \in Jobs |-> 0]
    /\ spawned' = 0
    /\ written' = {}
    /\ basis' = [since EXCEPT !.above = {x \in since.touched : fs[x] > fs["out"]}]
    /\ since' = NoBasis
    /\ UNCHANGED <<fs, temp_files, now, defaults, setups, module_targets, obj_role>>
    /\ UNCHANGED notBuildVars

\* build() leaves with an exception: nothing after the raise is run
BuildRaises(e) ==
    /\ bresult' = e
    /\ bpc' = "idle"
    /\ since' = NoBasis

\* build() with no targets: _find_default_target raises
BuildConflict(c, cl) ==
    /\ BuildEntered(c, cl)
    /\ ConfiguredTargets(c) = <<>>
    /\ _find_default_target.raised # ""
    /\ bresult' = _find_default_target.raised
    /\ build_targets' = <<>>
    /\ UNCHANGED <<bpc, pending>>

\* build(): a requested target is not a bakery-target
BuildUnknownTarget(c, cl) ==
    /\ BuildEntered(c, cl)
    /\ ConfiguredTargets(c) = <<>> => _find_default_target.raised = ""
    /\ \E ts \in ResolvedTargets(c) :
          /\ UnknownTargets(ts) # {}
          /\ build_targets' = ts
    /\ bresult' = "BuildError: Unknown target"
    /\ UNCHANGED <<bpc, pending>>

\* build(): the targets are valid; the setup methods come first, in the
\* order of the scan
BuildBegins(c, cl, order) ==
    /\ BuildEntered(c, cl)
    /\ ConfiguredTargets(c) = <<>> => _find_default_target.raised = ""
    /\ \E ts \in ResolvedTargets(c) :
          /\ UnknownTargets(ts) = {}
          /\ build_targets' = ts
    /\ pending' = order
    /\ bpc' = "setup"
    /\ bresult' = "none"

\* for setup_method_name in setup_methods: ends; the targets are next
SetupDone ==
    /\ bpc = "setup" /\ pending = <<>> /\ plan = <<>>
    /\ bpc' = "targets"
    /\ pending' = build_targets
    /\ UNCHANGED <<fs, temp_files, cleaning, now, defaults, setups, module_targets, obj_role,
                   build_count, bcall, build_targets, plan, bcached, bresult, jpc,
                   produced, jobruns, spawned, written, since, basis>>
    /\ UNCHANGED notBuildVars

\* injector.require(name) of the next setup method or target
RequireNext ==
    /\ bpc \in {"setup", "targets"} /\ pending # <<>> /\ plan = <<>>
    /\ plan' = RequirePlan(Head(pending), bcached)
    /\ pending' = Tail(pending)
    /\ UNCHANGED <<fs, temp_files, cleaning, now, defaults, setups, module_targets, obj_role,
                   bpc, build_count, bcall, build_targets, bcached, bresult, jpc,
                   produced, jobruns, spawned, written, since, basis>>
    /\ UNCHANGED notBuildVars

\* the producer of a resource that runs no recipe returns
ProduceValue ==
    /\ plan # <<>> /\ bpc # "idle"
    /\ Head(plan) \in Registered
    /\ JobsOf(Head(plan)) = {}
    /\ produced' = [produced EXCEPT ![Head(plan)] = @ + 1]
    /\ bcached' = IF IsSingletonResource(Head(plan))
                  THEN bcached \cup {Head(plan)} ELSE bcached
    /\ plan' = Tail(plan)
    /\ UNCHANGED <<fs, temp_files, cleaning, now, defaults, setups, module_targets, obj_role,
                   bpc, build_count, bcall, build_targets, pending, bresult, jpc,
                   jobruns, spawned, written, since, basis>>
    /\ UNCHANGED notBuildVars

\* the producer of a resource that runs no recipe raises, or the injector
\* does not know the name
ProduceRaises ==
    /\ plan # <<>> /\ bpc # "idle"
    /\ JobsOf(Head(plan)) = {}
    /\ produced' = [r \in Resources |->
                       IF r = Head(plan) THEN produced[r] + 1 ELSE produced[r]]
    /\ BuildRaises("Exception")
    /\ UNCHANGED <<fs, temp_files, cleaning, now, defaults, setups, module_targets, obj_role,
                   build_count, bcall, build_targets, pending, plan, bcached, jpc,
                   jobruns, spawned, written, basis>>
    /\ UNCHANGED notBuildVars

\* objects and executable: the producer is called and awaits its recipes
ProducerBegins ==
    /\ plan # <<>> /\ bpc # "idle"
    /\ JobsOf(Head(plan)) # {}
    /\ \A j \in JobsOf(Head(plan)) : jpc[j] = "idle"
    /\ produced' = [produced EXCEPT ![Head(plan)] = @ + 1]
    /\ jpc' = [j \in Jobs |-> IF j \in JobsOf(Head(plan)) THEN "entered" ELSE jpc[j]]
    /\ UNCHANGED <<fs, temp_files, cleaning, now, defaults, setups, module_targets, obj_role,
                   bpc, build_count, bcall, build_targets, pending, plan, bcached,
                   bresult, jobruns, spawned, written, since, basis>>
    /\ UNCHANGED notBuildVars

\* the recipe wrapper in clean mode
JobCleans(j) ==
    /\ bpc # "idle" /\ jpc[j] = "entered"
    /\ Branch(JobInv(j), fs, cleaning) = "clean"
    /\ fs' = CleanedFs(JobInv(j), fs)
    /\ jpc' = [jpc EXCEPT ![j] = "done"]
    /\ UNCHANGED <<temp_files, cleaning, now, defaults, setups, module_targets, obj_role, bpc,
                   build_count, bcall, build_targets, pending, plan, bcached, bresult,
                   produced, jobruns, spawned, written, since, basis>>
    /\ UNCHANGED notBuildVars

\* the recipe wrapper in clean mode: a File.remove raises and the error
\* leaves build()
JobCleanFails(j) ==
    /\ bpc # "idle" /\ jpc[j] = "entered"
    /\ Branch(JobInv(j), fs, cleaning) = "clean"
    /\ outputs_exist(JobInv(j), fs)
    /\ fs' \in RemoveFailures(fs, output_files(JobInv(j)))
    /\ BuildRaises("OSError")
    /\ UNCHANGED <<temp_files, cleaning, now, defaults, setups, module_targets, obj_role,
                   build_count, bcall, build_targets, pending, plan, bcached, jpc,
                   produced, jobruns, spawned, written, basis>>
    /\ UNCHANGED notBuildVars

\* the recipe wrapper finds its outputs up to date
JobSkips(j) ==
    /\ bpc # "idle" /\ jpc[j] = "entered"
    /\ Branch(JobInv(j), fs, cleaning) = "skip"
    /\ jpc' = [jpc EXCEPT ![j] = "done"]
    /\ UNCHANGED <<fs, temp_files, cleaning, now, defaults, setups, module_targets, obj_role, bpc,
                   build_count, bcall, build_targets, pending, plan, bcached, bresult,
                   produced, jobruns, spawned, written, since, basis>>
    /\ UNCHANGED notBuildVars

\* the recipe wrapper calls the wrapped producer, which spawns cc
JobBuilds(j) ==
    /\ bpc # "idle" /\ jpc[j] = "entered"
    /\ Branch(JobInv(j), fs, cleaning) = "build"
    /\ jpc' = [jpc EXCEPT ![j] = "running"]
    /\ jobruns' = [jobruns EXCEPT ![j] = @ + 1]
    /\ spawned' = spawned + 1
    /\ UNCHANGED <<fs, temp_files, cleaning, now, defaults, setups, module_targets, obj_role, bpc,
                   build_count, bcall, build_targets, pending, plan, bcached, bresult,
                   produced, written, since, basis>>
    /\ UNCHANGED notBuildVars

\* the tree after cc exits with 0 at time t, having written its output or not
AfterCc(j, wrote, t) == IF wrote THEN [fs EXCEPT ![OutFile(j)] = t] ELSE fs

\* cc exits with 0: build_recipe records the temp files and finds the
\* outputs up to date
JobReturns(j, wrote, t, order) ==
    /\ bpc # "idle" /\ jpc[j] = "running"
    /\ outputs_up_to_date(JobInv(j), AfterCc(j, wrote, t))
    /\ fs' = AfterCc(j, wrote, t)
    /\ now' = t
    /\ temp_files' = extend(temp_files, order)
    /\ jpc' = [jpc EXCEPT ![j] = "done"]
    /\ written' = IF wrote THEN written \cup {OutFile(j)} ELSE written
    /\ UNCHANGED <<cleaning, defaults, setups, module_targets, obj_role, bpc, build_count,
                   bcall, build_targets, pending, plan, bcached, bresult, produced,
                   jobruns, spawned, since, basis>>
    /\ UNCHANGED notBuildVars

\* cc exits with 0: build_recipe records the temp files, finds the outputs
\* missing or stale and raises BuildError
JobRaisesBuildError(j, wrote, t, order) ==
    /\ bpc # "idle" /\ jpc[j] = "running"
    /\ ~outputs_up_to_date(JobInv(j), AfterCc(j, wrote, t))
    /\ fs' = AfterCc(j, wrote, t)
    /\ now' = t
    /\ temp_files' = extend(temp_files, order)
    /\ BuildRaises("BuildError")
    /\ UNCHANGED <<cleaning, defaults, setups, module_targets, obj_role, build_count,
                   bcall, build_targets, pending, plan, bcached, jpc, produced,
                   jobruns, spawned, written, basis>>
    /\ UNCHANGED notBuildVars

\* cc exits with another code: shell raises SubprocessError, which leaves
\* the producer, the wrapper and build()
JobFails(j) ==
    /\ bpc # "idle" /\ jpc[j] = "running"
    /\ BuildRaises("SubprocessError")
    /\ UNCHANGED <<fs, temp_files, cleaning, now, defaults, setups, module_targets, obj_role,
                   build_count, bcall, build_targets, pending, plan, bcached, jpc,
                   produced, jobruns, spawned, written, basis>>
    /\ UNCHANGED notBuildVars

\* every recipe the producer awaits has returned: the producer returns
ProducerEnds ==
    /\ plan # <<>> /\ bpc # "idle"
    /\ JobsOf(Head(plan)) # {}
    /\ \A j \in JobsOf(Head(plan)) : jpc[j] = "done"
    /\ bcached' = IF IsSingletonResource(Head(plan))
                  THEN bcached \cup {Head(plan)} ELSE bcached
    /\ plan' = Tail(plan)
    /\ UNCHANGED <<fs, temp_files, cleaning, now, defaults, setups, module_targets, obj_role,
                   bpc, build_count, bcall, build_targets, pending, bresult, jpc,
                   produced, jobruns, spawned, written, since, basis>>
    /\ UNCHANGED notBuildVars

\* every target is required: self._clean_temp_files(); return result
BuildReturns ==
    /\ bpc = "targets" /\ pending = <<>> /\ plan = <<>>
    /\ fs' = CleanTempFiles(fs, temp_files)
    /\ bresult' = "ok"
    /\ bpc' = "idle"
    /\ since' = [ok |-> ~cleaning, touched |-> {}, above |-> {},
                 cleaned |-> cleaning /\ basis.ok /\ basis.touched = {},
                 kept |-> IF cleaning THEN basis.kept
                          ELSE {x \in BuildFiles \ Sources : exists(fs', x)}]
    /\ UNCHANGED <<temp_files, cleaning, now, defaults, setups, module_targets, obj_role,
                   build_count, bcall, build_targets, pending, plan, bcached, jpc,
                   produced, jobruns, spawned, written, basis>>
    /\ UNCHANGED notBuildVars

\* _clean_temp_files(): a File.remove raises and the error leaves build()
CleanupFails ==
    /\ bpc = "targets" /\ pending = <<>> /\ plan = <<>>
    /\ fs' \in RemoveFailures(fs, Range(temp_files))
    /\ BuildRaises("OSError")
    /\ UNCHANGED <<temp_files, cleaning, now, defaults, setups, module_targets, obj_role,
                   build_count, bcall, build_targets, pending, plan, bcached, jpc,
                   produced, jobruns, spawned, written, basis>>
    /\ UNCHANGED notBuildVars

\* between two builds the mtime of a source is raised
Touch(x, t) ==
    /\ bpc = "idle"
    /\ t > fs[x]
    /\ fs' = [fs EXCEPT ![x] = t]
    /\ now' = t
    /\ since' = [since EXCEPT !.touched = @ \cup {x}]
    /\ UNCHANGED <<temp_files, cleaning, defaults, setups, module_targets, obj_role, bpc,
                   build_count, bcall, build_targets, pending, plan, bcached, bresult,
                   jpc, produced, jobruns, spawned, written, basis>>
    /\ UNCHANGED notBuildVars

\* the steps of a build once it has begun, and the edits between builds
BuildSteps ==
    \/ SetupDone
    \/ RequireNext
    \/ ProduceValue
    \/ ProduceRaises
    \/ ProducerBegins
    \/ \E j \in Jobs : JobCleans(j)
    \/ \E j \in Jobs : JobCleanFails(j)
    \/ \E j \in Jobs : JobSkips(j)
    \/ \E j \in Jobs : JobBuilds(j)
    \/ \E j \in Jobs : \E wrote \in BOOLEAN : \E t \in now..MaxTime :
          \E order \in Orderings(invTempFiles(JobInv(j))) :
             JobReturns(j, wrote, t, order)
    \/ \E j \in Jobs : \E wrote \in BOOLEAN : \E t \in now..MaxTime :
          \E order \in Orderings(invTempFiles(JobInv(j))) :
             JobRaisesBuildError(j, wrote, t, order)
    \/ \E j \in Jobs : JobFails(j)
    \/ ProducerEnds
    \/ BuildReturns
    \/ CleanupFails
    \/ \E x \in Sources : \E t \in now..MaxTime : Touch(x, t)

BuildNext ==
    \/ \E c \in BuildCalls : \E cl \in BOOLEAN : BuildConflict(c, cl)
    \/ \E c \in BuildCalls : \E cl \in BOOLEAN : BuildUnknownTarget(c, cl)
    \/ \E c \in BuildCalls : \E cl \in BOOLEAN :
          \E order \in Orderings(_find_setup_methods) : BuildBegins(c, cl, order)
    \/ BuildSteps

\* bake: configure() has run, the bakefile calls build()
BakeNext ==
    \/ \E cl \in BOOLEAN : BuildConflict(BakeCall(argv), cl)
    \/ \E cl \in BOOLEAN : BuildUnknownTarget(BakeCall(argv), cl)
    \/ \E cl \in BOOLEAN : \E order \in Orderings(_find_setup_methods) :
          BuildBegins(BakeCall(argv), cl, order)
    \/ BuildSteps

RebuildNext ==
    \/ \E c \in DemoCalls : \E cl \in BOOLEAN :
          \E order \in Orderings(_find_setup_methods) : BuildBegins(c, cl, order)
    \/ BuildSteps

\* the build driver between builds, after n calls of build()
BuildReady(n) ==
    /\ bpc = "idle"
    /\ build_count = n
    /\ build_targets = <<>>
    /\ pending = <<>>
    /\ plan = <<>>
    /\ bcached = {}
    /\ bresult = "none"
    /\ bcall = NoCall
    /\ jpc = [j \in Jobs |-> "idle"]
    /\ produced = [r \in Resources |-> 0]
    /\ jobruns = [j \in Jobs |-> 0]
    /\ spawned = 0
    /\ written = {}
    /\ since = NoBasis
    /\ basis = NoBasis

BuildQuiet ==
    /\ BuildReady(0)
    /\ now = 1
    /\ module_targets = {"objects", "executable"}
    /\ defaults = {"executable"}
    /\ setups = {}
    /\ obj_role = "target"

(***************************************************************************)
(* The utilities on their own: flat_map (bakery/utils.py) on nested values *)
(* and File.remove (bakery/core.py) on a tree with directories.            *)
(***************************************************************************)
\* a container of the given kind; the keys of a dict are paths too
Container(kind, items) ==
    IF kind = "dict"
    THEN Dict([k \in DOMAIN items |-> <<(<<"out", "a.c", "a.o">>)[k], items[k]>>])
    ELSE [kind |-> kind, path |-> "", items |-> items, num |-> 0]

\* a set holds hashable items, each once
Hashable(items) ==
    /\ \A k \in DOMAIN items : items[k].kind \in {"str", "tuple"}
    /\ \A j, k \in DOMAIN items : j # k => items[j] # items[k]

\* a path, or a container of paths
Inner ==
    {Str(p) : p \in Files} \cup
    {Container(kind, items) :
        kind \in {"list", "tuple", "set", "dict"},
        items \in {<<>>, <<Str("a.c")>>, <<Str("a.o"), Str("out")>>}}

\* the values flat_map is called with: paths, and containers of up to
\* MaxItems paths or containers of paths
FlatArgs ==
    Inner \cup
    {Container(kind, items) :
        kind \in {"list", "tuple", "dict"}, items \in SeqsUpTo(Inner, MaxItems)} \cup
    {Container("set", items) :
        items \in {i \in SeqsUpTo(Inner, MaxItems) : Hashable(i)}}

\* flat_map(arg) is called and returns
Flatten ==
    /\ flat_results = NoResult
    /\ flat_results' = Returned(flat_map(flat_arg, "id"))
    /\ UNCHANGED <<flat_arg, tree, rm, argv, clean_call>>
    /\ UNCHANGED notUtilVars


\* the paths of the tree remove is tried on, and the directory each is in
Paths == {"d", "d/x", "d/s", "d/s/y", "f"}
Parent(p) ==
    IF p = "d/s/y" THEN "d/s" ELSE IF p \in {"d/x", "d/s"} THEN "d" ELSE "."

RECURSIVE Beneath(_, _)
\* q is p or lies in the subtree of p
Beneath(q, p) == q = p \/ (Parent(q) # "." /\ Beneath(Parent(q), p))

\* the trees: a path is a directory, a regular file or absent, and what is
\* in an absent path or in a regular file is absent
Trees ==
    {t \in [Paths -> {"absent", "file", "dir"}] :
        \A p \in Paths : (Parent(p) # "." /\ t[Parent(p)] # "dir") => t[p] = "absent"}

NoRemove == [path |-> "", after |-> [p \in Paths |-> "absent"], error |-> ""]

\* A plausible slip: a directory is removed with os.rmdir semantics on the
\* entry alone.
FileRemoveEntry(t, path) == {[after |-> [t EXCEPT ![path] = "absent"], error |-> ""]}

\* File.remove(file): what it can leave and raise.  shutil.rmtree removes
\* the directory with all beneath it, or raises having removed some of what
\* is beneath; os.remove deletes the file or raises; an absent path is left
\* alone.
FileRemove(t, path) ==
    IF t[path] = "dir"
    THEN {[after |-> [p \in Paths |-> IF Beneath(p, path) THEN "absent" ELSE t[p]],
           error |-> ""]}
         \cup
         {[after |-> a, error |-> "OSError"] :
             a \in {b \in Trees : /\ b[path] = "dir"
                                  /\ \A p \in Paths : b[p] \in {t[p], "absent"}
                                  /\ \A p \in Paths : ~Beneath(p, path) => b[p] = t[p]}}
    ELSE IF t[path] = "file"
    THEN {[after |-> [t EXCEPT ![path] = "absent"], error |-> ""],
          [after |-> t, error |-> "OSError"]}
    ELSE {[after |-> t, error |-> ""]}

\* remove(path) is called and returns or raises
Remove(path, r) ==
    /\ rm = NoRemove
    /\ r \in FileRemove(tree, path)
    /\ rm' = [path |-> path, after |-> r.after, error |-> r.error]
    /\ UNCHANGED <<flat_arg, flat_results, tree, argv, clean_call>>
    /\ UNCHANGED notUtilVars

RemoveNext == \E path \in Paths : \E r \in FileRemove(tree, path) : Remove(path, r)

NoClean == [outs |-> {}, after |-> [p \in Paths |-> "absent"], error |-> "none"]

RECURSIVE CleanLoop(_, _)
\* for file in output_files: File.remove(file); a removal that raises ends
\* the loop
CleanLoop(t, order) ==
    IF order = <<>> THEN {[after |-> t, error |-> ""]}
    ELSE UNION {IF r.error # "" THEN {r} ELSE CleanLoop(r.after, Tail(order)) :
                   r \in FileRemove(t, Head(order))}

\* A plausible slip: the directory an output is in is removed with it.
CleanTreeParents(t, outs) ==
    UNION {CleanLoop(t, o) :
              o \in Orderings(outs \cup ({Parent(x) : x \in outs} \ {"."}))}

\* clean() on a tree with directories: if outputs_exist(), the outputs are
\* removed in the order the set is iterated
CleanTree(t, outs) ==
    IF \A x \in outs : t[x] # "absent"
    THEN UNION {CleanLoop(t, o) : o \in Orderings(outs)}
    ELSE {[after |-> t, error |-> ""]}

\* wrapper in clean mode, its output_files being paths of the tree; the
\* value it returns is that of WrapperClean
WrapperCleanTree(outs) ==
    /\ RecipeIdle
    /\ cleaning
    /\ clean_call = NoClean
    /\ \E r \in CleanTree(tree, outs) :
          /\ clean_call' = [outs |-> outs, after |-> r.after, error |-> r.error]
          /\ result' = IF r.error = "" THEN Returned(SetValue(outs))
                       ELSE Raised(r.error)
    /\ invoked' = 0
    /\ rpc' = "done"
    /\ UNCHANGED <<fs, temp_files, cleaning, inv>>
    /\ UNCHANGED <<shellVars, evalVars, buildVars>>
    /\ UNCHANGED <<flat_arg, flat_results, tree, rm, argv>>

CleanTreeNext ==
    \E outs \in SUBSET Paths : WrapperCleanTree(outs)

\* neither utility has been called on its own
UtilQuiet ==
    /\ flat_arg = Str("a.c") /\ flat_results = NoResult
    /\ tree = [p \in Paths |-> "absent"] /\ rm = NoRemove
    /\ argv = <<>> /\ clean_call = NoClean

(***************************************************************************)
(* Specifications.                                                         *)
(***************************************************************************)
FsStates == [Files -> {NoFile} \cup Times]

RecipeInit ==
    /\ fs \in FsStates
    /\ temp_files \in UNION {[1..n -> Files] : n \in 0..MaxTemp}
    /\ cleaning \in BOOLEAN
    /\ rpc = "idle"
    /\ inv = NoInv
    /\ invoked = 0
    /\ result = NoResult
    /\ ShellQuiet
    /\ EvalQuiet
    /\ BuildQuiet
    /\ UtilQuiet

RecipeNext ==
    \/ \E i \in Invocations : WrapperClean(i)
    \/ \E i \in Invocations : WrapperCleanFails(i)
    \/ \E i \in Invocations : WrapperSkip(i)
    \/ \E i \in Invocations : WrapperBuild(i)
    \/ \E f2 \in FsStates : \E order \in Orderings(invTempFiles(inv)) :
           ProducerReturns(f2, order)
    \/ \E f2 \in FsStates : ProducerRaises(f2)

\* one recipe invocation, on any filesystem
SpecRecipe == RecipeInit /\ [][RecipeNext]_vars

RecipeQuiet ==
    /\ fs = [file \in Files |-> NoFile]
    /\ temp_files = <<>>
    /\ cleaning = FALSE
    /\ rpc = "idle"
    /\ inv = NoInv
    /\ invoked = 0
    /\ result = NoResult

ShellInit ==
    /\ RecipeQuiet
    /\ EvalQuiet
    /\ BuildQuiet
    /\ UtilQuiet
    /\ ShellReady(Tasks)
    /\ call \in [Tasks -> ConcurrentCalls]

\* MaxTasks shell invocations started together
SpecShell == ShellInit /\ [][ShellNext]_vars

\* MaxTasks shell invocations started together, when the event loop runs
\* whatever can run and every subprocess comes to its end
SpecShellFair == ShellInit /\ [][ShellNext]_vars /\ WF_vars(ShellNext)

ShellOneInit ==
    /\ RecipeQuiet
    /\ EvalQuiet
    /\ BuildQuiet
    /\ UtilQuiet
    /\ ShellReady({1})
    /\ \E c \in SingleCalls : call = [p \in Tasks |-> IF p = 1 THEN c ELSE QuietSuccess]

\* one shell invocation, with any subprocess
SpecShellOne == ShellOneInit /\ [][ShellNext]_vars

\* one invocation of a subprocess that writes up to MaxLines lines to each
\* stream
ShellFairInit ==
    /\ RecipeQuiet
    /\ EvalQuiet
    /\ BuildQuiet
    /\ UtilQuiet
    /\ ShellReady({1})
    /\ \E c \in [args : {ArgsMake}, spawns : {TRUE},
                  out : {[k \in 1..n |-> l] : n \in 0..MaxLines, l \in RawLines},
                  err : {[k \in 1..n |-> l] : n \in 0..MaxLines, l \in RawLines},
                  rc : {0, 1}] \cup {SpawnFailure} :
          call = [p \in Tasks |-> IF p = 1 THEN c ELSE QuietSuccess]

\* one shell invocation run by an event loop that resumes a coroutine whose
\* await has completed, with a subprocess that writes its lines and closes
\* its streams
SpecShellOneFair == ShellFairInit /\ [][ShellNext]_vars /\ WF_vars(ShellNext)

EvalInit ==
    /\ RecipeQuiet
    /\ ShellQuiet
    /\ BuildQuiet
    /\ UtilQuiet
    /\ EvalReady
    /\ \E c \in EvalConfigs :
          /\ deps = c.deps
          /\ decl = [n \in Names |-> c.forms[n][1]]
          /\ body = [n \in Names |-> c.forms[n][2]]
          /\ targets = c.targets

\* one build() over any modules of three resources
SpecEval == EvalInit /\ [][EvalNext]_vars

\* no recipe is invoked on its own
RecipeUnused ==
    /\ rpc = "idle"
    /\ inv = NoInv
    /\ invoked = 0
    /\ result = NoResult

\* a tree with the sources only, written at time 1
SourcesOnly == [file \in BuildFiles |-> IF file \in Sources THEN 1 ELSE NoFile]

\* a tree with the sources and their objects, written at time 1
ObjectsBuilt == [file \in BuildFiles |-> IF file = "out" THEN NoFile ELSE 1]

\* any module of the shape of the Bakefile, on a tree without the executable,
\* in a process that has one call of build() left
BuildInit ==
    /\ RecipeUnused /\ ShellQuiet /\ EvalQuiet /\ UtilQuiet
    /\ BuildReady(MaxBuilds - 1)
    /\ fs \in {SourcesOnly, ObjectsBuilt}
    /\ now = 1
    /\ temp_files = <<>>
    /\ cleaning = FALSE
    /\ module_targets \in {{}, {"executable"}, {"objects", "executable"}}
    /\ defaults \in SUBSET module_targets
    /\ setups \in {{}, {"prepare"}, {"prepare", "tools"}}
    /\ obj_role \in {"target", "temp"}

\* builds of any module, called in any way
SpecBuild == BuildInit /\ [][BuildNext]_vars

\* bake run with any positional names on a bakefile of any module
BakeInit ==
    /\ RecipeUnused /\ ShellQuiet /\ EvalQuiet
    /\ flat_arg = Str("a.c") /\ flat_results = NoResult
    /\ tree = [p \in Paths |-> "absent"] /\ rm = NoRemove
    /\ argv \in CommandLines /\ clean_call = NoClean
    /\ BuildReady(MaxBuilds - 1)
    /\ fs \in {SourcesOnly, ObjectsBuilt}
    /\ now = 1
    /\ temp_files = <<>>
    /\ cleaning = FALSE
    /\ module_targets \in {{}, {"executable"}, {"objects", "executable"}}
    /\ defaults \in SUBSET module_targets
    /\ setups \in {{}, {"prepare"}}
    /\ obj_role \in {"target", "temp"}

SpecBake == BakeInit /\ [][BakeNext]_vars

\* the trees at time n: the sources exist, nothing is newer than n
TreesAt(n) ==
    {f \in [BuildFiles -> {NoFile} \cup (1..n)] : \A x \in Sources : f[x] # NoFile}

\* the Bakefile, on any tree
RebuildInit ==
    /\ RecipeUnused /\ ShellQuiet /\ EvalQuiet /\ UtilQuiet
    /\ BuildReady(MaxBuilds - 2)
    /\ now \in Times
    /\ fs \in TreesAt(now)
    /\ temp_files = <<>>
    /\ cleaning = FALSE
    /\ module_targets = {"objects", "executable"}
    /\ defaults = {"executable"}
    /\ setups = {}
    /\ obj_role \in {"target", "temp"}

\* builds of the Bakefile one after another, with sources touched between
SpecRebuild == RebuildInit /\ [][RebuildNext]_vars

\* the Bakefile, on any tree whose files have one age
RoundTripInit ==
    /\ RecipeUnused /\ ShellQuiet /\ EvalQuiet /\ UtilQuiet
    /\ BuildReady(MaxBuilds - 3)
    /\ now = 1
    /\ fs \in TreesAt(1)
    /\ temp_files = <<>>
    /\ cleaning = FALSE
    /\ module_targets = {"objects", "executable"}
    /\ defaults = {"executable"}
    /\ setups = {}
    /\ obj_role \in {"target", "temp"}

\* three builds of the Bakefile in a row
SpecRoundTrip == RoundTripInit /\ [][RebuildNext]_vars



FlattenInit ==
    /\ RecipeQuiet /\ ShellQuiet /\ EvalQuiet /\ BuildQuiet
    /\ flat_arg \in FlatArgs /\ flat_results = NoResult
    /\ tree = [p \in Paths |-> "absent"] /\ rm = NoRemove
    /\ argv = <<>> /\ clean_call = NoClean

\* flat_map called on any nested value
SpecFlatten == FlattenInit /\ [][Flatten]_vars

RemoveInit ==
    /\ RecipeQuiet /\ ShellQuiet /\ EvalQuiet /\ BuildQuiet
    /\ flat_arg = Str("a.c") /\ flat_results = NoResult
    /\ tree \in Trees /\ rm = NoRemove
    /\ argv = <<>> /\ clean_call = NoClean

\* File.remove called on any path of any tree
SpecRemove == RemoveInit /\ [][RemoveNext]_vars

CleanTreeInit ==
    /\ RecipeUnused /\ ShellQuiet /\ EvalQuiet /\ BuildQuiet
    /\ fs = [file \in Files |-> NoFile]
    /\ temp_files \in UNION {[1..n -> Files] : n \in 0..MaxTemp}
    /\ cleaning = TRUE
    /\ flat_arg = Str("a.c") /\ flat_results = NoResult
    /\ tree \in Trees /\ rm = NoRemove
    /\ argv = <<>> /\ clean_call = NoClean

\* a recipe invoked in clean mode with any outputs on any tree
SpecCleanTree == CleanTreeInit /\ [][CleanTreeNext]_vars

(***************************************************************************)
(* Claims about the recipe wrapper, checked under SpecRecipe.              *)
(***************************************************************************)

\* the freshness comparison of the specification, where both maxima exist
FreshAgainstChecks(i, f) ==
    \/ check_files(i) = {}
    \/ /\ check_mtimes(i, f) # {} /\ output_mtimes(i, f) # {}
       /\ Max(check_mtimes(i, f)) <= Max(output_mtimes(i, f))

\* outputs_exist AND (check_files = {} OR max(check_mtimes) <= max(output_mtimes))
SpecUpToDate(i, f) == outputs_exist(i, f) /\ FreshAgainstChecks(i, f)

\* the cases in which the specification's formula is defined: no maximum of
\* an empty list is taken
SpecUpToDateDefined(i, f) ==
    \/ ~outputs_exist(i, f)
    \/ check_files(i) = {}
    \/ check_mtimes(i, f) # {} /\ output_mtimes(i, f) # {}

\* C1 as claimed: in normal mode the producer is skipped exactly when all
\* output files exist and (there are no check files or max(check mtimes) <=
\* max(output mtimes)); in every other case it is invoked.  While the
\* producer is being awaited, and after a skip, the filesystem is the one
\* the decision was taken on.
C1_SkipIffUpToDate ==
    (~cleaning /\ SpecUpToDateDefined(inv, fs)) =>
        /\ rpc = "producing" => ~SpecUpToDate(inv, fs)
        /\ (rpc = "done" /\ invoked = 0) => SpecUpToDate(inv, fs)

\* the skip decision with the conjunct the claim leaves out: the recipe
\* declares an output role
DeclaresOutputs(i) == i.targets # {} \/ i.temp # {}

\* C1 as amended: in normal mode the producer is skipped exactly when the
\* recipe declares an output role, all output files exist and (there are no
\* check files, or some check file and some output file exist and max(check
\* mtimes) <= max(output mtimes)); in every other case it is invoked.
C1_SkipDecision ==
    ~cleaning =>
        /\ rpc = "producing" => ~(DeclaresOutputs(inv) /\ SpecUpToDate(inv, fs))
        /\ (rpc = "done" /\ invoked = 0) =>
               (DeclaresOutputs(inv) /\ SpecUpToDate(inv, fs))

\* a skip decided by the comparison of mtimes, with equal maxima
C1_Witness ==
    /\ ~cleaning /\ rpc = "done" /\ invoked = 0
    /\ check_mtimes(inv, fs) # {}
    /\ Max(check_mtimes(inv, fs)) = Max(output_mtimes(inv, fs))

\* C2: after a clean-mode invocation has returned, no output file of the
\* invocation exists, whatever existed before.
C2_CleanRemovesAllOutputs ==
    (cleaning /\ rpc = "done") => \A file \in output_files(inv) : ~exists(fs, file)

\* C3: in clean mode the wrapped producer is never invoked.
C3_CleanNeverInvokes == cleaning => (invoked = 0 /\ rpc # "producing")

\* C3 witness: a clean-mode invocation has returned on a tree whose outputs
\* are stale or missing, where normal mode would have built.
C3_Witness ==
    /\ cleaning /\ rpc = "done" /\ invoked = 0
    /\ outputs(inv) # {} /\ check_files(inv) # {}
    /\ ~outputs_up_to_date(inv, fs)

\* C4: in normal mode, when the producer of a stale recipe has returned and
\* the declared outputs do not all exist, or are not up to date with the check
\* files, the invocation raises BuildError and returns no value.
C4_MissingOutputRaises ==
    (~cleaning /\ rpc = "done" /\ invoked = 1 /\ result # Raised("JobError")
        /\ ~SpecUpToDate(inv, fs))
    => result = Raised("BuildError")

\* C4 witness: the producer returned without creating a declared output and
\* the invocation ended in BuildError.
C4_Witness ==
    /\ ~cleaning /\ rpc = "done" /\ invoked = 1
    /\ ~outputs_exist(inv, fs)
    /\ result = Raised("BuildError")


\* C13: when an invocation raises BuildError because the producer did not
\* create the declared outputs, the temp registry is what it was before.
C13_FailedRecipeRegistersNothing ==
    [][(rpc = "producing" /\ result' = Raised("BuildError"))
          => temp_files' = temp_files]_vars

\* the scalar bound to the only target role, when there is one
ScalarTarget(i) ==
    /\ Cardinality(i.targets) = 1
    /\ \A k \in i.targets : i.args[k].kind \notin {"list", "generator"}

\* C14: an invocation with exactly one target role bound to a scalar returns
\* that scalar; with several target roles, or a target role bound to a
\* sequence, it returns the set of all output file paths.
C14_CoalescedReturn ==
    (rpc = "done" /\ result.tag = "return" /\ inv.targets # {}) =>
        IF ScalarTarget(inv)
        THEN \A k \in inv.targets : result.val = inv.args[k]
        ELSE result.val = SetValue(output_files(inv))

\* C21: a recipe invoked in clean mode on a tree where none of its output
\* files exists removes nothing, leaves the filesystem as it was and raises
\* no error (so a second clean after a clean changes nothing).
C21_CleanIdempotent ==
    [][(rpc = "idle" /\ rpc' = "done" /\ cleaning
          /\ \A file \in output_files(inv') : ~exists(fs, file))
          => (fs' = fs /\ result'.tag = "return")]_vars

\* a clean-mode invocation with outputs declared, none on disk while a check
\* file is, has returned
C21_Witness ==
    /\ cleaning /\ rpc = "done" /\ result.tag = "return"
    /\ output_files(inv) # {} /\ \A file \in output_files(inv) : ~exists(fs, file)
    /\ \E file \in check_files(inv) : exists(fs, file)

\* C34: a recipe invocation changes the temp registry only in the stale
\* branch of normal mode and only once the producer has returned: an
\* invocation in clean mode, a skip, and an invocation whose producer raises
\* leave the registry exactly as it was.
C34_RegistryFrame ==
    [][/\ rpc = "idle" => temp_files' = temp_files
       /\ (rpc = "producing" /\ result'.tag = "raise" /\ result'.val = "JobError")
             => temp_files' = temp_files
       /\ temp_files' # temp_files =>
             /\ rpc = "producing" /\ invoked = 1 /\ ~cleaning
             /\ ~outputs_up_to_date(inv, fs)
             /\ \E order \in Orderings(invTempFiles(inv)) :
                   temp_files' = temp_files \o order]_vars

\* the producer of a stale recipe with a temp role has returned and the
\* registry holds more than it could hold when the invocation began
C34_Witness ==
    /\ rpc = "done" /\ invoked = 1 /\ result.tag = "return"
    /\ inv.temp # {}
    /\ Len(temp_files) > MaxTemp

\* C37 as claimed: a recipe declared with no target role and no temp role is
\* never up to date: in normal mode every invocation invokes the producer
\* and then raises BuildError, whatever the producer did and whatever the
\* state of the filesystem.
C37_NoOutputsAlwaysBuildError ==
    (~cleaning /\ rpc = "done" /\ inv.targets \cup inv.temp = {}) =>
        (invoked = 1 /\ result = Raised("BuildError"))

\* C37 as amended: in normal mode every invocation of a recipe declared with
\* no target role and no temp role invokes the producer and returns no
\* value: when the producer returns the invocation raises BuildError,
\* whatever the producer left on the filesystem, and when the producer raises
\* its exception is what the invocation raises.
C37_NoOutputsNeverUpToDate ==
    [][/\ (rpc = "idle" /\ rpc' # "idle" /\ ~cleaning /\ inv'.targets \cup inv'.temp = {})
             => (rpc' = "producing" /\ invoked' = 1)
       /\ (rpc = "producing" /\ ~cleaning /\ inv.targets \cup inv.temp = {}) =>
             /\ result'.tag = "raise"
             /\ result'.val # "JobError" => result'.val = "BuildError"]_vars

\* a recipe with a check role only was invoked on a tree where every file
\* exists, its producer returned, and the invocation raised BuildError
C37_Witness ==
    /\ ~cleaning /\ rpc = "done" /\ invoked = 1
    /\ inv.targets \cup inv.temp = {} /\ inv.check # {}
    /\ \A file \in Files : exists(fs, file)
    /\ result = Raised("BuildError")

\* no check file of invocation i exists on f, and it has some
NoCheckFileExists(i, f) ==
    check_files(i) # {} /\ \A x \in check_files(i) : ~exists(f, x)

\* C38: a recipe whose check file set is not empty but none of whose check
\* files exists is never up to date in normal mode: the producer is invoked
\* even if all outputs exist, and if no check file exists after the producer
\* has returned the invocation raises BuildError even when every declared
\* output was created.
C38_MissingCheckFilesNeverUpToDate ==
    [][/\ (rpc = "idle" /\ rpc' # "idle" /\ ~cleaning /\ NoCheckFileExists(inv', fs))
             => (rpc' = "producing" /\ invoked' = 1)
       /\ (rpc = "producing" /\ ~cleaning /\ NoCheckFileExists(inv, fs')
             /\ ~(result'.tag = "raise" /\ result'.val = "JobError"))
             => (result'.tag = "raise" /\ result'.val = "BuildError")]_vars

\* the producer of a recipe with outputs and check files has returned, every
\* output exists, no check file does, and the invocation raised BuildError
C38_Witness ==
    /\ ~cleaning /\ rpc = "done" /\ invoked = 1
    /\ output_files(inv) # {} /\ outputs_exist(inv, fs)
    /\ NoCheckFileExists(inv, fs)
    /\ result = Raised("BuildError")

(***************************************************************************)
(* Claims about the shell runner, checked under SpecShell (MaxTasks        *)
(* invocations started together) and SpecShellOne (one invocation).        *)
(***************************************************************************)

\* the invocations that hold a permit: from the return of acquire() to the
\* finally clause, which covers the spawn, the read loop and proc.wait()
Holders == {p \in Tasks : spc[p] \in {"spawning", "reading", "waitproc"}}

\* C7: at every moment at most CPU_CORES invocations are between the spawn
\* and the end of the wait.
C7_BoundedParallelism == Cardinality(Holders) <= CPU_CORES

\* C7 witness: CPU_CORES subprocesses are running and a further invocation
\* is waiting for a permit.
C7_Witness ==
    /\ Cardinality({p \in Tasks : spc[p] \in {"reading", "waitproc"}}) = CPU_CORES
    /\ \E p \in Tasks : spc[p] = "waiting"

\* C8: every invocation that acquired a permit gives back exactly one when it
\* finishes (return, SubprocessError or failed spawn), so the permits left
\* and the permits held always add up to CPU_CORES, and with no invocation
\* in flight the semaphore holds CPU_CORES permits again.
C8_PermitConservation ==
    /\ limiter + Cardinality(Holders) = CPU_CORES
    /\ (\A p \in Tasks : spc[p] \in {"unused", "done"}) => limiter = CPU_CORES

\* C8 witness: every invocation has finished, one by a failed spawn, one by
\* SubprocessError and one by a normal return.
C8_Witness ==
    /\ \A p \in Tasks : spc[p] = "done"
    /\ \E p \in Tasks : sresult[p].exc = "OSError"
    /\ \E p \in Tasks : sresult[p].exc = "SubprocessError"
    /\ \E p \in Tasks : sresult[p].tag = "return"
    /\ limiter = CPU_CORES

\* the argv each argument tuple of the model flattens to
ExpectedArgv(args) ==
    IF args = ArgsCompile THEN <<"cc", "-c", "a.c">>
    ELSE IF args = ArgsLink THEN <<"cc", "a.o", "b.o", "-o", "out">>
    ELSE <<"make", "-j", "4">>

\* C9: an invocation whose subprocess exits with code 0 returns exactly the
\* captured stdout lines; one whose subprocess exits nonzero raises
\* SubprocessError with the flattened argv, the captured stdout lines, the
\* captured stderr lines and the exit code.
C9_ReturnOrSubprocessError ==
    \A p \in Tasks :
        (spc[p] = "done" /\ call[p].spawns) =>
            /\ Len(output[p]) = Len(call[p].out)
            /\ Len(err_output[p]) = Len(call[p].err)
            /\ IF call[p].rc = 0
               THEN /\ sresult[p].tag = "return"
                    /\ sresult[p].output = output[p]
               ELSE /\ sresult[p].tag = "raise"
                    /\ sresult[p].exc = "SubprocessError"
                    /\ sresult[p].cmd_line = ExpectedArgv(call[p].args)
                    /\ sresult[p].output = output[p]
                    /\ sresult[p].err_output = err_output[p]
                    /\ sresult[p].returncode = call[p].rc

\* C9 witness: a subprocess that wrote to both streams exited nonzero and the
\* invocation raised SubprocessError.
C9_Witness ==
    \E p \in Tasks :
        /\ spc[p] = "done" /\ call[p].rc # 0 /\ call[p].args = ArgsMake
        /\ output[p] # <<>> /\ err_output[p] # <<>> /\ output[p] # err_output[p]
        /\ sresult[p].exc = "SubprocessError"


\* C23: whatever the subprocess writes to stdout and stderr, in whatever
\* order the lines and the two EOFs arrive, the invocation ends: it returns
\* or raises.
C23_ReadLoopTerminates ==
    <>(spc[1] = "done" /\ sresult[1].tag \in {"return", "raise"})

\* an invocation has ended whose subprocess filled both streams, stderr with
\* more than a pipe holds
C23_Witness ==
    /\ spc[1] = "done" /\ sresult[1].tag = "return"
    /\ Len(call[1].out) > 0 /\ Len(call[1].err) > PipeCap
    /\ Len(err_output[1]) = Len(call[1].err)

\* C39: when more than CPU_CORES invocations are started together and every
\* subprocess that is spawned exits with both streams closed, every
\* invocation that waits for a permit comes to hold one, and every
\* invocation returns or raises in the end.
C39_SemaphoreProgress ==
    /\ \A p \in Tasks : (spc[p] = "waiting") ~> (p \in Holders)
    /\ <>(\A p \in Tasks : spc[p] = "done" /\ sresult[p].tag \in {"return", "raise"})

\* one invocation is over and CPU_CORES others hold a permit: one of them
\* had to wait for the permit that was given back
C39_Witness ==
    /\ MaxTasks > CPU_CORES
    /\ Cardinality(Holders) = CPU_CORES
    /\ \E p \in Tasks : spc[p] = "done"

\* the lines of stream s read so far by invocation p, each without its
\* trailing whitespace
ReadSoFar(p, s) ==
    [k \in 1..rpos[p][s] |-> rstrip(StreamLines(p, s)[k])]

\* C32: every line read from a stream before EOF is appended, in the order
\* read, to the buffer of its own stream and to no other, with only its
\* trailing whitespace removed: its leading whitespace is kept.
C32_LinesCapturedRightTrimmed ==
    \A p \in Tasks :
        /\ output[p] = ReadSoFar(p, "stdout")
        /\ err_output[p] = ReadSoFar(p, "stderr")

(***************************************************************************)
(* The evaluator's claims, under SpecEval.                                 *)
(***************************************************************************)
\* the card of the deck a resource was dealt into
CardOf(n) == CHOOSE i \in 1..Len(eval_deck) : n \in eval_deck[i]

\* declared @singleton, or @target, which composes singleton
DeclaredSingleton(n) == decl[n] \in {"singleton", "target"}

\* a dependency sits in a strictly earlier card than its dependent
StrictlyEarlierCards ==
    \A B \in ReachedBy(deps, targets) : \A A \in deps[B] : CardOf(A) < CardOf(B)

\* cards are evaluated in order: nothing of a later card has been invoked
\* or has run, and while the producers of a card are invoked no await of
\* an earlier card is outstanding
CardsInOrder ==
    /\ \A n \in ReachedBy(deps, targets) :
          (calls[n] > 0 \/ n \in effects) => CardOf(n) <= level
    /\ epc = "require" => awaiting = {}

\* C5 as claimed: if B depends on A then A is in a strictly earlier card,
\* the cards are evaluated in order with every await of a card complete
\* before the next card's producers begin, and no side effect of A ever
\* follows a side effect of B.
C5_EverySideEffectPrecedes ==
    eval_deck # <<>> => StrictlyEarlierCards /\ CardsInOrder /\ late = {}

\* C5 as amended: if B depends on A then A is in a strictly earlier card,
\* the cards are evaluated in order with every await of a card complete
\* before the next card's producers begin, A has run before B first runs,
\* and when A is a singleton no side effect of A follows a side effect of
\* B.  (A producer that is not a singleton runs again for every dependent
\* and for the final results.)
C5_LevelOrdering ==
    eval_deck # <<>> =>
        /\ StrictlyEarlierCards
        /\ CardsInOrder
        /\ \A B \in effects : deps[B] \subseteq effects
        /\ \A A \in late : ~DeclaredSingleton(A)

\* a build that succeeded in which B depends on an awaited singleton A, both
\* have run, and a plain producer ran again after its dependent
C5_Witness ==
    /\ epc = "done" /\ error = "none"
    /\ \E B \in targets : \E A \in deps[B] :
          /\ DeclaredSingleton(A) /\ Yields(A) = "async"
          /\ {A, B} \subseteq effects
    /\ late # {}

\* C6: the producer of a resource declared singleton (every target is one)
\* is invoked at most once per build(), however many resources depend on it
\* and although it is required in its card and again for the final results.
C6_SingletonOnce == \A n \in Names : DeclaredSingleton(n) => calls[n] <= 1

\* a finished build whose requested target is a singleton that two other
\* resources depend on, and that was produced
C6_Witness ==
    /\ epc = "done" /\ error = "none"
    /\ \E n \in targets :
          /\ decl[n] = "target"
          /\ Cardinality({m \in ReachedBy(deps, targets) : n \in deps[m]}) > 1
          /\ calls[n] = 1

\* a cycle among the resources the roots reach: some resource reaches itself
Cyclic == HasCycle(deps, targets)

LevelEvaluated(n) ==
    /\ eval_deck # <<>>
    /\ n \in ReachedBy(deps, targets)
    /\ CardOf(n) < level

\* C29: when the value of a resource is a sequence that holds deferred
\* elements, then once its level is evaluated the sequence bound to the
\* resource holds, at every index that held a deferred element, the awaited
\* result of that element, and every other element unchanged at its index.
C29_SequenceSplicing ==
    \A n \in Names :
        (LevelEvaluated(n) /\ Yields(n) = "list") =>
            /\ provided[n].kind = "list"
            /\ \A i \in DOMAIN ListShape :
                  provided[n].items[i] =
                     IF ListShape[i] = "coro" THEN Element("value", n, i)
                     ELSE NewList(n)[i]

\* C30: when several resources of one level each yield a deferred value,
\* then once the level is evaluated the awaited result of the deferred
\* value of T is bound as the value of T, and of no other resource, for
\* every such T.
C30_DeferredSplicing ==
    \A T \in Names :
        (LevelEvaluated(T) /\ Yields(T) = "async") =>
            /\ provided[T] = ScalarValue(Element("value", T, 0))
            /\ \A n \in Names \ {T} :
                  \A i \in DOMAIN provided[n].items :
                     provided[n].items[i] # Element("value", T, 0)

\* the resources dealt into the cards before card i
DealtBefore(i) == UNION {eval_deck[k] : k \in 1..(i - 1)}

\* C31: when one producer of a level fails while peers of the same level are
\* still in flight, build() does not unwind until every peer has completed:
\* no gathered coroutine is still pending when the error leaves build().
C31_PeersCompleteBeforeUnwind ==
    (epc = "done" /\ error = "JobError") => awaiting = {}

\* C33: for every acyclic graph whose dependencies are all keys of the
\* graph, build_eval_deck returns (it does not raise) cards that are not
\* empty, are pairwise disjoint and whose union is the set of the keys, and
\* each card holds every resource not yet placed whose dependencies all lie
\* in earlier cards.
C33_DeckPartitions ==
    (~Cyclic /\ epc # "start") =>
        /\ error # "EvaluationError"
        /\ \A i \in DOMAIN eval_deck : eval_deck[i] # {}
        /\ \A i, k \in DOMAIN eval_deck : i # k => eval_deck[i] \cap eval_deck[k] = {}
        /\ UNION {eval_deck[i] : i \in DOMAIN eval_deck} = DOMAIN get_dependency_graph(targets)
        /\ \A i \in DOMAIN eval_deck :
              eval_deck[i] =
                 {n \in DOMAIN get_dependency_graph(targets) \ DealtBefore(i) :
                     deps[n] \subseteq DealtBefore(i)}

\* a deck of two cards has been dealt, the first of two resources that the
\* resource of the second depends on
C33_Witness ==
    /\ ~Cyclic /\ epc # "start"
    /\ Len(eval_deck) = 2
    /\ Cardinality(eval_deck[1]) = 2
    /\ \E n \in eval_deck[2] : deps[n] = eval_deck[1]

(***************************************************************************)
(* Claims about the build driver, checked under SpecBuild (one build of    *)
(* any module) and SpecRebuild (builds of the Bakefile one after another). *)
(***************************************************************************)
BuildSucceeded == bpc = "idle" /\ bresult = "ok"
BuildFailed == bpc = "idle" /\ bresult \notin {"none", "ok"}
Registry == {temp_files[k] : k \in DOMAIN temp_files}

C12_CleanupOnFailure ==
    BuildFailed => \A file \in Registry : ~exists(fs, file)

\* the build was called with no targets, and none were configured
NoTargetsGiven ==
    /\ bpc # "idle" \/ bresult # "none"
    /\ (IF bcall.interactive /\ bcall.targets = <<>>
        THEN bcall.config_targets ELSE bcall.targets) = <<>>

NothingProduced ==
    /\ \A r \in Resources : produced[r] = 0
    /\ \A j \in Jobs : jobruns[j] = 0
    /\ spawned = 0

\* C15 as claimed: build() with no targets builds the single resource tagged
\* bakery-default; with no resource tagged bakery-default it fails with an
\* error and builds nothing.
C15_DefaultOrError ==
    NoTargetsGiven =>
        /\ Cardinality(defaults) = 1 => Range(build_targets) = defaults
        /\ defaults = {} =>
              (~BuildSucceeded /\ \A r \in module_targets : produced[r] = 0)

\* C15 as amended: build() with no targets builds the single resource tagged
\* bakery-default; with no resource tagged bakery-default it builds a
\* resource tagged bakery-target (the first the scan returns), and fails,
\* with BuildError for the unknown target None, only when there is none.
C15_DefaultOrFirstTarget ==
    NoTargetsGiven =>
        /\ Cardinality(defaults) = 1 => Range(build_targets) = defaults
        /\ (defaults = {} /\ module_targets # {}) =>
              /\ Len(build_targets) = 1
              /\ Range(build_targets) \subseteq module_targets
              /\ bresult # "BuildError: Unknown target"
        /\ (defaults = {} /\ module_targets = {}) =>
              /\ BuildFailed /\ bresult = "BuildError: Unknown target"
              /\ build_targets = <<"None">>
              /\ NothingProduced

\* a build with no default tagged has returned, having built a target
C15_Witness ==
    /\ NoTargetsGiven /\ defaults = {} /\ BuildSucceeded
    /\ \E r \in module_targets : build_targets = <<r>> /\ produced[r] = 1

\* C16: over a module with two or more resources tagged bakery-default,
\* build() fails with TargetConflictError before any producer runs.
C16_ConflictRaises ==
    (Cardinality(defaults) >= 2 /\ (bpc # "idle" \/ bresult # "none")) =>
        /\ bpc = "idle" => bresult = "TargetConflictError"
        /\ NothingProduced

\* the targets build() was asked for that the module does not tag
\* bakery-target
Invalid(c) ==
    LET asked == IF c.interactive /\ c.targets = <<>>
                 THEN c.config_targets ELSE c.targets
    IN {asked[k] : k \in DOMAIN asked} \ module_targets

\* C17: when a requested target is not a registered resource tagged
\* bakery-target, build() raises BuildError for the unknown target with no
\* setup resource or producer invoked and the tree and registry unchanged.
C17_UnknownTargetRaises ==
    [][(build_count' # build_count /\ Invalid(bcall') # {}) =>
          /\ bpc' = "idle" /\ bresult' = "BuildError: Unknown target"
          /\ NothingProduced'
          /\ fs' = fs /\ temp_files' = temp_files]_vars

\* build() was asked for a valid and an unknown target and has raised
C17_Witness ==
    /\ bcall.targets = <<"executable", "nosuch">>
    /\ "executable" \in module_targets /\ setups # {}
    /\ BuildFailed /\ bresult = "BuildError: Unknown target"

\* C18: in a successful build every resource tagged bakery-setup is produced
\* exactly once, and all of them before the first requested target is
\* required.
C18_SetupOnceFirst ==
    /\ (bpc = "targets" \/ BuildSucceeded) => \A r \in setups : produced[r] = 1
    /\ bpc = "setup" => \A r \in Resources \ setups : produced[r] = 0
    /\ \A r \in setups : produced[r] <= 1

\* a build of a module with two setup resources, one depending on the
\* other, has returned
C18_Witness ==
    /\ BuildSucceeded /\ setups = {"prepare", "tools"}
    /\ produced["executable"] = 1

\* this build began on the tree a successful build in normal mode left
AfterGoodBuild == basis.ok /\ ~cleaning /\ obj_role = "target"

\* C19: with recipes that have check and target roles and no temp role, a
\* second build on the tree the first left invokes no producer of a recipe
\* and spawns no subprocess.
C19_NoopRebuild ==
    (AfterGoodBuild /\ basis.touched = {}) =>
        /\ \A j \in Jobs : jobruns[j] = 0
        /\ spawned = 0

\* the second build has returned, having found all three recipes up to date
C19_Witness ==
    /\ AfterGoodBuild /\ basis.touched = {} /\ BuildSucceeded
    /\ \A j \in Jobs : jpc[j] = "done"

JobOfSource(x) == IF x = "a.c" THEN "a" ELSE "b"

\* exactly the compile of x and the link are invoked, once the build is done
ExactlyRecompiled(x) ==
    /\ \A y \in Sources \ {x} : jobruns[JobOfSource(y)] = 0
    /\ BuildSucceeded => (jobruns[JobOfSource(x)] = 1 /\ jobruns["link"] = 1)

\* C20 as claimed: after a successful two-stage build, raising the mtime of
\* exactly one source and rebuilding invokes the compile producer of that
\* source and the link producer, and the compile producer of no other source.
C20_StaleRecompile ==
    \A x \in Sources :
        (basis.ok /\ ~cleaning /\ basis.touched = {x}) => ExactlyRecompiled(x)

\* C20 as amended: after a successful two-stage build whose compile recipes
\* declare the object as a target (not as a temp file), raising the mtime
\* of exactly one source above the mtime of the executable and rebuilding
\* invokes the compile producer of that source and the link producer, and
\* the compile producer of no other source.
C20_StaleRecompileAbove ==
    \A x \in Sources :
        (AfterGoodBuild /\ basis.touched = {x} /\ basis.above = {x})
            => ExactlyRecompiled(x)

\* the rebuild after a.c was raised has returned
C20_Witness ==
    /\ AfterGoodBuild /\ basis.touched = {"a.c"} /\ basis.above = {"a.c"}
    /\ BuildSucceeded
    /\ jobruns["a"] = 1 /\ jobruns["link"] = 1 /\ jpc["b"] = "done"

\* C27: when a removal of an output or temp file fails with a filesystem
\* error, in clean mode or in the cleanup after the build, build() raises
\* BuildError.
C27_RemoveFailureIsBuildError ==
    [][((\E j \in Jobs : JobCleanFails(j)) \/ CleanupFails)
          => bresult' = "BuildError"]_vars

\* C25: no step of any recipe invocation, cleanup or later build() removes
\* or reorders an entry of the temp registry: the registry before a step is
\* a prefix of the registry after it.
C25_RegistryOnlyGrows ==
    [][/\ Len(temp_files') >= Len(temp_files)
       /\ SubSeq(temp_files', 1, Len(temp_files)) = temp_files]_vars

\* a second build has registered its temp files after those of the first
\* and has run its cleanup
C25_Witness ==
    /\ build_count = MaxBuilds /\ BuildSucceeded
    /\ temp_files = <<"a.o", "b.o", "a.o", "b.o">>
    /\ ~exists(fs, "a.o") /\ ~exists(fs, "b.o")

\* C22: the output files that exist after build(), build(clean), build() on
\* unchanged inputs are the output files that existed after the first
\* build().
C22_RoundTrip ==
    (BuildSucceeded /\ ~cleaning /\ basis.cleaned /\ basis.touched = {}) =>
        {x \in BuildFiles \ Sources : exists(fs, x)} = basis.kept

(***************************************************************************)
(* Claims about the utilities, checked under SpecFlatten and SpecRemove.   *)
(***************************************************************************)
RECURSIVE Leaves(_)
\* the leaf paths of a nested value: a path is its own leaf, a container has
\* the leaves of its items, a mapping those of its values
Leaves(v) ==
    IF v.kind = "str" THEN {v.path}
    ELSE IF v.kind = "dict" THEN UNION {Leaves(v.items[k][2]) : k \in DOMAIN v.items}
    ELSE UNION {Leaves(v.items[k]) : k \in DOMAIN v.items}

\* C24: for every value built from nested lists, tuples, sets and mappings of
\* paths, the set of what flat_map returns is the union of the leaf paths:
\* keys of mappings are not in it, an empty container adds nothing, a path
\* yields itself.
C24_Flattening ==
    flat_results # NoResult =>
        {x.path : x \in Range(flat_results.val)} = Leaves(flat_arg)

\* flat_map has returned the leaves of a list that holds a mapping whose key
\* is not among its values and an empty container
C24_Witness ==
    /\ flat_results # NoResult
    /\ flat_arg.kind = "list" /\ Len(flat_arg.items) = 2
    /\ flat_arg.items[1] = Container("dict", <<Str("a.c")>>)
    /\ flat_arg.items[2] = Container("set", <<>>)
    /\ flat_results.val = <<Str("a.c")>>

\* C26: remove(path) that returns leaves a directory and all beneath it
\* absent, leaves a regular file absent, and on an absent path changes
\* nothing and raises nothing; whether it returns or raises, no path outside
\* path and its subtree is changed.
C26_RemovalPolicy ==
    rm # NoRemove =>
        /\ \A p \in Paths : ~Beneath(p, rm.path) => rm.after[p] = tree[p]
        /\ rm.error = "" => \A p \in Paths : Beneath(p, rm.path) => rm.after[p] = "absent"
        /\ tree[rm.path] = "absent" => (rm.after = tree /\ rm.error = "")

\* remove has returned from a directory that held a file and a directory
\* with a file in it, next to a file that is still there
C26_Witness ==
    /\ rm.path = "d" /\ rm.error = ""
    /\ tree["d"] = "dir" /\ tree["d/x"] = "file" /\ tree["d/s/y"] = "file"
    /\ tree["f"] = "file" /\ rm.after["f"] = "file"
    /\ rm.after["d"] = "absent" /\ rm.after["d/s/y"] = "absent"


\* the recipe jobs of the Bakefile that declare temp files, under SpecRebuild
TempJobs == {j \in Jobs : invTempFiles(JobInv(j)) # {}}

\* C35 as claimed: a recipe with a temp file set that is not empty is never
\* skipped on the build that follows a successful build: its producer is
\* invoked again on every build, even with check and target files unchanged.
C35_TempRecipeNeverSkipped ==
    (basis.ok /\ ~cleaning) =>
        \A j \in TempJobs : jpc[j] = "done" => jobruns[j] = 1

\* C35 as amended: a recipe whose temp files are in the registry (its
\* producer has returned in an earlier build of the process) is never
\* skipped on the build that follows a successful build: the cleanup of
\* that build deleted them, so its producer is invoked again.
C35_RegisteredTempRecipeNeverSkipped ==
    (basis.ok /\ ~cleaning) =>
        \A j \in TempJobs :
            (jpc[j] = "done" /\ invTempFiles(JobInv(j)) \subseteq Registry)
                => jobruns[j] = 1

\* the build after a successful build has returned with no source touched
\* in between, and both compile producers were invoked again
C35_Witness ==
    /\ basis.ok /\ ~cleaning /\ basis.touched = {} /\ BuildSucceeded
    /\ TempJobs = {"a", "b"}
    /\ \A j \in TempJobs : jobruns[j] = 1
    /\ basis.kept = {"out"}

(***************************************************************************)
(* Claims about the bake command line, checked under SpecBake.             *)
(***************************************************************************)

\* C28: when bake is run with positional TARGET names and the bakefile
\* calls build() without explicit targets, the targets built are exactly
\* the names of the command line; with no names, the bakery-default target
C28_CommandLineTargets ==
    (bpc # "idle" \/ bresult # "none") =>
       IF argv # <<>>
       THEN build_targets = argv
       ELSE Cardinality(defaults) = 1 => Range(build_targets) = defaults

(***************************************************************************)
(* Claims about clean() on a tree with directories, under SpecCleanTree.   *)
(***************************************************************************)

\* C36 as claimed: an invocation in clean mode removes only paths of its own
\* output_files: every path outside that set exists afterwards iff it
\* existed before, and the temp registry is unchanged.
C36_CleanRemovesOnlyOutputs ==
    [][(clean_call = NoClean /\ clean_call' # NoClean) =>
          /\ \A p \in Paths \ clean_call'.outs :
                (clean_call'.after[p] # "absent") <=> (tree[p] # "absent")
          /\ temp_files' = temp_files]_vars

\* C36 as amended: an invocation in clean mode leaves every path that is
\* neither one of its output_files nor beneath one of them as it was, and
\* the temp registry unchanged.  (An output that is a directory goes with
\* all that is in it.)
C36_CleanFrame ==
    [][(clean_call = NoClean /\ clean_call' # NoClean) =>
          /\ \A p \in Paths :
                (\A q \in clean_call'.outs : ~Beneath(p, q))
                   => clean_call'.after[p] = tree[p]
          /\ temp_files' = temp_files]_vars

\* clean() has returned from an output that was a directory with a file in
\* it: both are gone, the file next to the directory is still there, and so
\* is the registered temp file
C36_Witness ==
    /\ clean_call.outs = {"d/s"} /\ clean_call.error = ""
    /\ tree["d/s/y"] = "file" /\ tree["d/x"] = "file"
    /\ clean_call.after["d/s"] = "absent" /\ clean_call.after["d/s/y"] = "absent"
    /\ clean_call.after["d/x"] = "file"
    /\ temp_files # <<>>

=========================================================================
